---- MODULE Spec2Model ----
(***************************************************************************)
(* MyHubLocal: the device registry (backend/app/core/registry.py) with its *)
(* temp-file + rename persistence, and the discovery orchestrator          *)
(* (backend/app/core/discover.py, discover_all_devices).                   *)
(*                                                                         *)
(* Files are modelled as POSIX files: a name refers to an inode, an open   *)
(* descriptor keeps referring to its inode when the name is renamed or     *)
(* unlinked, and every descriptor has its own write offset.  File content  *)
(* is a sequence of cells (the chunks json.dump hands to the file): "[",   *)
(* one cell per record, "]".                                               *)
(***************************************************************************)
EXTENDS Integers, Sequences, FiniteSets, TLC

(* ------------------------------ bounds ------------------------------ *)
\* registry calls started in one behaviour of one request handler
MaxOps == 2
\* registry calls started in one behaviour of two overlapping request handlers
MaxConcOps == 2
\* injected I/O errors in one behaviour
MaxFaults == 1
\* process crashes in one behaviour
MaxCrashes == 1
\* devices one discovery family reports
MaxFound == 1
\* candidates one Wi-Fi sub-strategy reports
MaxSubFound == 2
\* candidate addresses of one subnet scan
MaxProbes == 5
\* node ids of the Z-Wave network, the controller's included
MaxNodes == 3
\* events logged beyond a retention cap
MaxOver == 2
\* log calls per event kind in a run with damaged files
MaxTelOps == 2
\* write errors, and damages to the primary file, in such a run
MaxTelFaults == 1
MaxDamage == 2

\* add, status and remove requests in one run
MaxAddOps == 3

\* adapter calls on one relay address
MaxShellyCalls == 3

\* datagrams received in one listen window
MaxDatagrams == 3

\* events logged per kind before a history is read, and the largest limit
MaxLogged == 3
MaxLimit == 4

\* log calls per kind made by two tasks
MaxConcLogs == 3

(* --------------------------- device records ------------------------- *)
\* a key that the caller's dict does not have
MISSING == "MISSING"
\* Python's None for a timestamp
None == 0

Ids == {"living_room_light", "kitchen_switch", "plug1"}

Names == {"Plug", "Lamp"}

Statuses == {"on", "off"}

\* registry.py:37-56, the sample devices written on first run
Seed(t) ==
    << [id |-> "living_room_light", name |-> "Living Room Light", type |-> "wifi",
        status |-> "unknown", added_at |-> t, updated_at |-> None, last_seen |-> None],
       [id |-> "kitchen_switch", name |-> "Kitchen Switch", type |-> "zwave",
        status |-> "unknown", added_at |-> t, updated_at |-> None, last_seen |-> None] >>

NoRec ==
    [id |-> "", name |-> "", type |-> "", status |-> "",
     added_at |-> None, updated_at |-> None, last_seen |-> None]

(* ------------------------- file content (JSON) ---------------------- *)
Cell(t, r) == [tok |-> t, rec |-> r]

LB == Cell("[", NoRec)

RB == Cell("]", NoRec)

\* a JSON document that is not a list, e.g. {}
OBJ == Cell("{}", NoRec)

\* bytes that are no JSON at all
JUNK == Cell("junk", NoRec)

\* the NUL bytes of a hole left by a write past the end of a truncated file
NUL == Cell("nul", NoRec)

\* json.dump(devices, f, indent=2): "[", the records in list order, "]"
Ser(devices) ==
    <<LB>> \o [i \in 1..Len(devices) |-> Cell("rec", devices[i])] \o <<RB>>

\* json.loads accepts the text as a list of objects
IsListText(data) ==
    /\ Len(data) >= 2
    /\ data[1] = LB
    /\ data[Len(data)] = RB
    /\ \A i \in 2..(Len(data) - 1) : data[i].tok = "rec"

\* what _load_registry_sync makes of the text it read
ParseKind(data) ==
    IF data = <<>> THEN "empty"
    ELSE IF data = <<OBJ>> THEN "notlist"
    ELSE IF IsListText(data) THEN "list"
    ELSE "bad"

\* json.loads of a list text
ParseList(data) == [i \in 1..(Len(data) - 2) |-> data[i + 1].rec]

\* write(2) of one cell at offset off (0-based) of a file holding data
WriteAt(data, off, c) ==
    IF off < Len(data) THEN [data EXCEPT ![off + 1] = c]
    ELSE data \o [i \in 1..(off - Len(data)) |-> NUL] \o <<c>>

NoFile == [ex |-> FALSE, data |-> <<>>]

File(data) == [ex |-> TRUE, data |-> data]

(* ----------------------------- list helpers -------------------------- *)
\* index of the first record with this id, 0 if none:
\* next((d for d in devices if d.get('id') == id), None)
RECURSIVE FindFrom(_, _, _)
FindFrom(devices, id, i) ==
    IF i > Len(devices) THEN 0
    ELSE IF devices[i].id = id THEN i
    ELSE FindFrom(devices, id, i + 1)

Find(devices, id) == FindFrom(devices, id, 1)

\* Without as it would be with the comparison the wrong way round
RECURSIVE WithoutOthers(_, _)
WithoutOthers(devices, id) ==
    IF devices = <<>> THEN <<>>
    ELSE IF Head(devices).id # id THEN WithoutOthers(Tail(devices), id)
    ELSE <<Head(devices)>> \o WithoutOthers(Tail(devices), id)

\* [d for d in devices if d.get('id') != id]
RECURSIVE Without(_, _)
Without(devices, id) ==
    IF devices = <<>> THEN <<>>
    ELSE IF Head(devices).id = id THEN Without(Tail(devices), id)
    ELSE <<Head(devices)>> \o Without(Tail(devices), id)

CountId(devices, id) == Cardinality({i \in 1..Len(devices) : devices[i].id = id})

(* ------------------------------- state ------------------------------- *)
VARIABLES
    live,        \* data/devices_registry.json        [ex, data]
    tmp,         \* data/devices_registry.tmp         [ex, data]
    backup,      \* data/devices_registry.json.backup [ex, data]
    pc,          \* per worker: where its registry call stands
    op,          \* per worker: the registry function it runs
    arg,         \* per worker: the call's arguments
    devices,     \* per worker: the local list `devices`
    fd,          \* per worker: the name its open descriptor's inode now has
    off,         \* per worker: the descriptor's write offset
    ret,         \* per worker: "none", "True", "False"
    out,         \* per worker: the list a read returned (get: zero or one record)
    now,         \* datetime.now(), a logical clock: the number of calls started
    faultsLeft,  \* I/O errors the environment may still inject
    crashesLeft, \* crashes the environment may still cause
    before,      \* per worker (history): the live file when its call began
    pre,         \* per worker (history): [saving, file], the live file when its save began
    seen,        \* per worker (history): how many records its load returned
    prev,        \* per worker (history): its previous call
    overlapped,  \* per worker (history): another call's save ran during this one
    crashAt,     \* per worker (history): pc at the crash, "none" otherwise
    expect,      \* per id (history): effect of the last call on it that returned True
    committed,   \* (history) [any, list]: the list of the save whose rename came last
    raced,       \* (history) some read-modify-write call began during another's save
    dpc,         \* discover_all_devices: "idle", "gather", "returned"
    clock,       \* seconds since discover_all_devices was called
    fam,         \* per family: "none", "running", "done", "raised", "timedout"
    fres,        \* per family: the list its adapter returned
    fdone,       \* per family (history): when its task ended
    result,      \* the mapping discover_all_devices returned
    returnedAt,  \* (history) when it returned
    mgIn,        \* discover_wifi_devices: the lists of the three sub-strategies
    mgOut,       \* discover_wifi_devices: discovered_devices
    mgpc,        \* discover_wifi_devices: "gathered", "merged"
    wpc,         \* _discover_wifi_with_fallback: "idle", "manual", "auto", "returned", "cancelled"
    autoStart,   \* clock when the automated discovery began
    sub,         \* per sub-strategy: "none", "running", "done", "cancelled"
    subOut,      \* per sub-strategy: the list it returned
    ranSubs,     \* (history) the sub-strategies that were started
    probe,       \* discover_shelly_subnet_scan, per candidate address: "none", "waiting",
                 \* "gen2", "gen1" (the request in flight), "done", "cancelled"
    sem,         \* the value of asyncio.Semaphore(3)
    zpc,         \* discover_zwave_devices: "idle", "zwavejs", "openzwave", "mock", "returned"
    zenv,        \* [lib, reach]: zwave_js_server is installed, its server answers
    znode,       \* per node id, what the controller reports: "absent", "ready", "notready"
    zres,        \* the node ids of the devices discover_zwave_devices returned
    mockRan,     \* (history) _try_mock_zwave_discovery was called
    zBefore,     \* (history) [live, backup]: the registry files when the run began
    cpc,         \* control_device_state: "idle", "detect", "command", "verify", "update",
                 \* "returned"
    creq,        \* [id, want]: the device id and payload.state's "on" as a status
    cdev,        \* [gen, relay]: the relay's API generation and its output
    cdet,        \* what _detect_shelly_generation returned
    cacked,      \* the command request was answered with HTTP 200
    cobs,        \* the output a status read made after the command reported, or "none"
    cret,        \* what the adapter returned: "none", "True", "False"
    cresp,       \* the handler's answer: "none", "success", "404", "400", "500"
    cold,        \* (history) the registry record found when the handler began
    cgot,        \* the record the handler's last get_device returned
    csent,       \* a request was sent to the device during the control request
    cwaited,     \* a request of the control request ran into its timeout
    stat,        \* get_device_status: [called, type, res, sent, waited]
    tprim,       \* data/telemetry.json        [kind, disc, onb]
    tbak,        \* data/telemetry.json.backup [kind, disc, onb]
    tnum,        \* per event kind: how many events were logged
    tlast,       \* (history) the last telemetry call: [op, ret, prim, bak, eff]
    tcommitted,  \* (history) the document of the last write that succeeded
    tfaults,     \* write errors the environment may still inject
    tdamage,     \* damages the environment may still do to the primary file
    tapp,        \* the server process: "up", or "crashed" while it imported its modules
    areg,        \* the registry's records with their transport addresses
    aclk,        \* add requests: datetime.now()
    anum,        \* add requests: how many requests were received
    apc,         \* per add handler: idle, check, ipcheck, persist, done
    areq,        \* per add handler: the request [layer, id, type, ip, node_id]
    adev,        \* per add handler: the Device it built, as a dict
    aresp,       \* per add handler: the HTTP status of its response
    alogged,     \* per add handler: the outcomes its request stored in telemetry
    srelay,      \* the device now at the relay's address
    snum,        \* adapter calls made on the address
    scall,       \* (history) the last adapter call [fn, dev, ok2, ok1, probes, gen, url, verify]
    sprior,      \* (history) the adapter call before it
    ipc,         \* subnet scan's address list: idle, generate, listed
    inets,       \* the networks still to go through
    ihosts,      \* the last octets still to append for the first of them
    igen,        \* test_ips as generated
    itest,       \* test_ips after deduplication and the slice
    lpc,         \* CoIoT listener: idle, listening, returned
    lfound,      \* discovered_devices [ip, via, n]
    lrecv,       \* (history) the datagrams received in the window [ip, payload]
    lidle,       \* receive attempts that ended without a datagram
    rcall,       \* (history) the last history call [kind, limit, history, out]
    kcall,       \* per task: the log call it is suspended in [kind, n, data]
    kran         \* (history) the log calls in the order they began [task, kind]

regVars ==
    <<live, tmp, backup, pc, op, arg, devices, fd, off, ret, out, now,
      faultsLeft, crashesLeft, before, pre, seen, prev, overlapped, crashAt, expect,
      committed, raced>>

discVars == <<dpc, clock, fam, fres, fdone, result, returnedAt>>

mergeVars == <<mgIn, mgOut, mgpc>>

wifiVars == <<wpc, autoStart, sub, subOut, ranSubs>>

probeVars == <<probe, sem>>

zwaveVars == <<zpc, zenv, znode, zres, mockRan, zBefore>>

\* the registry's variables that _load_registry_sync leaves alone
regRest ==
    <<tmp, pc, op, arg, devices, off, ret, out, faultsLeft, crashesLeft, before,
      pre, seen, prev, overlapped, crashAt, expect, committed, raced>>

ctlVars == <<cpc, creq, cdev, cdet, cacked, cobs, cret, cresp, cold, cgot, csent, cwaited, stat>>

telVars == <<tprim, tbak, tnum, tlast, tcommitted, tfaults, tdamage, tapp>>

addVars == <<areg, aclk, anum, apc, areq, adev, aresp, alogged>>

shellyVars == <<srelay, snum, scall, sprior>>

testIpVars == <<ipc, inets, ihosts, igen, itest>>

coiotVars == <<lpc, lfound, lrecv, lidle>>

recentVars == <<rcall>>

concLogVars == <<kcall, kran>>

vars == <<regVars, discVars, mergeVars, wifiVars, probeVars, zwaveVars, ctlVars, telVars, addVars, shellyVars, testIpVars, coiotVars, recentVars, concLogVars>>

\* what is not the registry's, what is not discover_all_devices', ...
notRegVars == <<discVars, mergeVars, wifiVars, probeVars, zwaveVars, ctlVars, telVars, addVars, shellyVars, testIpVars, coiotVars, recentVars, concLogVars>>

notDiscVars == <<regVars, mergeVars, wifiVars, probeVars, zwaveVars, ctlVars, telVars, addVars, shellyVars, testIpVars, coiotVars, recentVars, concLogVars>>

notMergeVars == <<regVars, discVars, wifiVars, probeVars, zwaveVars, ctlVars, telVars, addVars, shellyVars, testIpVars, coiotVars, recentVars, concLogVars>>

notWifiVars == <<regVars, mergeVars, probeVars, zwaveVars, ctlVars, telVars, addVars, shellyVars, testIpVars, coiotVars, recentVars, concLogVars>>

notProbeVars == <<regVars, discVars, mergeVars, wifiVars, zwaveVars, ctlVars, telVars, addVars, shellyVars, testIpVars, coiotVars, recentVars, concLogVars>>

\* what a Z-Wave discovery leaves alone, its load_registry call aside
notZwaveVars == <<regRest, discVars, mergeVars, wifiVars, probeVars, ctlVars, telVars, addVars, shellyVars, testIpVars, coiotVars, recentVars, concLogVars>>

\* what a control request leaves alone, its registry calls aside
notCtlVars == <<regRest, discVars, mergeVars, wifiVars, probeVars, zwaveVars, telVars, addVars, shellyVars, testIpVars, coiotVars, recentVars, concLogVars>>

notTelVars == <<regVars, discVars, mergeVars, wifiVars, probeVars, zwaveVars, ctlVars, addVars, shellyVars, testIpVars, coiotVars, recentVars, concLogVars>>

\* what an add request leaves alone, its telemetry call aside
notAddVars == <<regVars, discVars, mergeVars, wifiVars, probeVars, zwaveVars, ctlVars, shellyVars, testIpVars, coiotVars, recentVars, concLogVars>>

notShellyVars == <<regVars, discVars, mergeVars, wifiVars, probeVars, zwaveVars, ctlVars, telVars, addVars, testIpVars, coiotVars, recentVars, concLogVars>>

notTestIpVars == <<regVars, discVars, mergeVars, wifiVars, probeVars, zwaveVars, ctlVars, telVars, addVars, shellyVars, coiotVars, recentVars, concLogVars>>

notCoiotVars == <<regVars, discVars, mergeVars, wifiVars, probeVars, zwaveVars, ctlVars, telVars, addVars, shellyVars, testIpVars, recentVars, concLogVars>>

notRecentVars == <<regVars, discVars, mergeVars, wifiVars, probeVars, zwaveVars, ctlVars, addVars, shellyVars, testIpVars, coiotVars, concLogVars>>

notConcLogVars == <<regVars, discVars, mergeVars, wifiVars, probeVars, zwaveVars, ctlVars, addVars, shellyVars, testIpVars, coiotVars, recentVars>>

\* a step of the registry leaves the discovery alone
Reg(A) == A /\ UNCHANGED notRegVars

Workers == {1, 2}

NoArg == [id |-> "", name |-> "", type |-> "", status |-> ""]

NoPrev == [op |-> "none", id |-> "", name |-> "", ret |-> "none", seen |-> 0]

NoPre == [saving |-> FALSE, file |-> NoFile]

NoExpect == [known |-> FALSE, present |-> FALSE, name |-> "", status |-> ""]

SavePcs == {"save_open", "save_write", "save_rename", "save_fail"}

Active(w) == pc[w] \in SavePcs

(* --------------------------- _load_registry_sync --------------------- *)
LoadKind == IF ~live.ex THEN "absent" ELSE ParseKind(live.data)

\* registry.py:19-25, 57: _save_registry_sync is the decorated (async) wrapper, so
\* the call made inside the worker thread only builds a coroutine object that is
\* never awaited: its body does not run and the file is left as it was.
UnawaitedSave(file, devs) == file

\* registry.py:28-85, the list returned when it runs at time t
Loaded(t) ==
    IF LoadKind = "absent" THEN Seed(t)
    ELSE IF LoadKind = "list" THEN ParseList(live.data)
    ELSE <<>>

\* a descriptor's inode after os.rename(src, dst) replaced dst
Renamed(f, src, dst) ==
    [w \in Workers |-> IF f[w] = src THEN dst ELSE IF f[w] = dst THEN "orphan" ELSE f[w]]

\* a descriptor's inode after unlink(name)
Unlinked(f, name) == [w \in Workers |-> IF f[w] = name THEN "orphan" ELSE f[w]]

\* LoadEffect as it would be if every file that holds no list were renamed
LoadEffectAnyNonList(rdErr) ==
    IF rdErr THEN UNCHANGED <<live, backup, fd>>
    ELSE IF LoadKind \notin {"absent", "list"}
    THEN /\ backup' = live
         /\ live' = NoFile
         /\ fd' = Renamed(fd, "live", "backup")
    ELSE UNCHANGED <<live, backup, fd>>

\* registry.py:28-85, the files after it ran; rdErr: open/read raised an OSError
LoadEffect(rdErr) ==
    IF rdErr THEN UNCHANGED <<live, backup, fd>>
    ELSE IF LoadKind = "absent"
    THEN /\ live' = UnawaitedSave(live, Seed(now + 1))
         /\ UNCHANGED <<backup, fd>>
    ELSE IF LoadKind = "bad"
    THEN /\ backup' = live
         /\ live' = NoFile
         /\ fd' = Renamed(fd, "live", "backup")
    ELSE UNCHANGED <<live, backup, fd>>

LoadResult(rdErr) == IF rdErr THEN <<>> ELSE Loaded(now + 1)

\* an injected read error counts against the budget
ReadErrs == IF faultsLeft > 0 THEN {FALSE, TRUE} ELSE {FALSE}

(* ------------------------------ calls -------------------------------- *)
\* A menu M bounds the calls: their inputs M.ids, M.names, M.statuses, M.lists and
\* their number M.maxOps; M.hist says whether the previous call is remembered.

\* bookkeeping common to every call: clock, history
Enter(w, M, o, a, nseen, saving) ==
    /\ pc[w] = "idle"
    /\ now < M.maxOps
    /\ now' = now + 1
    /\ op' = [op EXCEPT ![w] = o]
    /\ arg' = [arg EXCEPT ![w] = a]
    /\ seen' = [seen EXCEPT ![w] = IF M.hist THEN nseen ELSE 0]
    /\ crashAt' = [v \in Workers |-> "none"]
    /\ overlapped' =
         [v \in Workers |->
            IF v = w THEN saving /\ (\E u \in Workers \ {w} : Active(u))
            ELSE overlapped[v] \/ (saving /\ Active(v))]
    /\ off' = [off EXCEPT ![w] = 0]
    /\ before' = [before EXCEPT ![w] = live]
    /\ raced' = (raced \/ (saving /\ \E u \in Workers \ {w} : Active(u)))
    /\ UNCHANGED <<tmp, crashesLeft, prev, committed>>

\* a call that begins with `devices = await load_registry()`
Begin(w, M, o, a, rdErr, saving) ==
    /\ Enter(w, M, o, a, Len(LoadResult(rdErr)), saving)
    /\ faultsLeft' = IF rdErr THEN faultsLeft - 1 ELSE faultsLeft
    /\ LoadEffect(rdErr)

\* the call returns without saving
Return(w, r, o) ==
    /\ pc' = [pc EXCEPT ![w] = "done"]
    /\ ret' = [ret EXCEPT ![w] = r]
    /\ out' = [out EXCEPT ![w] = o]
    /\ pre' = [pre EXCEPT ![w] = NoPre]
    /\ UNCHANGED <<devices, expect>>

\* the call goes on to `await save_registry(devs)`
ToSave(w, devs) ==
    /\ pc' = [pc EXCEPT ![w] = "save_open"]
    /\ ret' = [ret EXCEPT ![w] = "none"]
    /\ out' = [out EXCEPT ![w] = <<>>]
    /\ devices' = [devices EXCEPT ![w] = devs]
    /\ pre' = [pre EXCEPT ![w] = [saving |-> TRUE, file |-> live']]
    /\ UNCHANGED expect

\* Upsert as it would be without the check for an existing id
UpsertAppend(loaded, a, t) ==
    Append(loaded,
       [id |-> a.id, name |-> a.name, type |-> a.type,
        status |-> IF a.status = MISSING THEN "unknown" ELSE a.status,
        added_at |-> t, updated_at |-> None, last_seen |-> None])

\* registry.py:156-172
Upsert(loaded, a, t) ==
    LET i == Find(loaded, a.id) IN
    IF i > 0
    THEN [loaded EXCEPT ![i] =
            [@ EXCEPT !.name = a.name, !.type = a.type,
                      !.status = IF a.status = MISSING THEN @ ELSE a.status,
                      !.updated_at = t]]
    ELSE Append(loaded,
            [id |-> a.id, name |-> a.name, type |-> a.type,
             status |-> IF a.status = MISSING THEN "unknown" ELSE a.status,
             added_at |-> t, updated_at |-> None, last_seen |-> None])

\* registry.py:149-154
HasRequired(a) == a.id # MISSING /\ a.name # MISSING /\ a.type # MISSING

\* registry.py:135-178
add_device(w, M) ==
    \E id \in M.ids, name \in M.names, rdErr \in ReadErrs :
       LET a == [id |-> id, name |-> name, type |-> "wifi", status |-> MISSING]
           loaded == LoadResult(rdErr)
       IN /\ Begin(w, M, "add", a, rdErr, HasRequired(a))
          /\ IF ~HasRequired(a) THEN Return(w, "False", <<>>)
             ELSE ToSave(w, Upsert(loaded, a, now + 1))

\* registry.py:180-208
remove_device(w, M) ==
    \E id \in M.ids, rdErr \in ReadErrs :
       LET a == [NoArg EXCEPT !.id = id]
           loaded == LoadResult(rdErr)
           kept == Without(loaded, id)
           found == Len(kept) # Len(loaded)
       IN /\ Begin(w, M, "remove", a, rdErr, found)
          /\ IF ~found THEN Return(w, "False", <<>>)
             ELSE ToSave(w, kept)

\* registry.py:230-256
update_device_status(w, M) ==
    \E id \in M.ids, st \in M.statuses, rdErr \in ReadErrs :
       LET a == [NoArg EXCEPT !.id = id, !.status = st]
           loaded == LoadResult(rdErr)
           i == Find(loaded, id)
       IN /\ Begin(w, M, "update_status", a, rdErr, i > 0)
          /\ IF i = 0 THEN Return(w, "False", <<>>)
             ELSE ToSave(w, [loaded EXCEPT ![i] =
                                [@ EXCEPT !.status = st, !.last_seen = now + 1]])

\* registry.py:210-228
get_device(w, M) ==
    \E id \in M.ids, rdErr \in ReadErrs :
       LET loaded == LoadResult(rdErr)
           i == Find(loaded, id)
       IN /\ Begin(w, M, "get", [NoArg EXCEPT !.id = id], rdErr, FALSE)
          /\ Return(w, "none", IF i = 0 THEN <<>> ELSE <<loaded[i]>>)

\* registry.py:113-119
load_registry(w, M) ==
    \E rdErr \in ReadErrs :
       /\ Begin(w, M, "load", NoArg, rdErr, FALSE)
       /\ Return(w, "none", LoadResult(rdErr))

\* registry.py:121-126, called with a list of the caller's own
save_registry(w, M) ==
    \E devs \in M.lists :
       /\ Enter(w, M, "save", NoArg, 0, TRUE)
       /\ UNCHANGED <<live, backup, fd, faultsLeft>>
       /\ ToSave(w, devs)

\* the lists handed to save_registry directly
SaveLists ==
    { <<>>,
      <<[id |-> "plug1", name |-> "Plug", type |-> "wifi", status |-> "on",
         added_at |-> 1, updated_at |-> None, last_seen |-> None]>> }

(* --------------------------- _save_registry_sync --------------------- *)
\* SaveOpen as it would be if the list were written over the live file itself
SaveOpenInPlace(w) ==
    /\ pc[w] = "save_open"
    /\ live' = File(<<>>)
    /\ fd' = [fd EXCEPT ![w] = "live"]
    /\ off' = [off EXCEPT ![w] = 0]
    /\ pc' = [pc EXCEPT ![w] = "save_write"]
    /\ UNCHANGED <<tmp, backup, op, arg, devices, ret, out, now, faultsLeft,
                   crashesLeft, before, pre, seen, prev, overlapped, crashAt, expect,
                   committed, raced>>

\* registry.py:95-96: open(temp_file, 'w') creates the file or truncates it
SaveOpen(w) ==
    /\ pc[w] = "save_open"
    /\ tmp' = File(<<>>)
    /\ fd' = [fd EXCEPT ![w] = "tmp"]
    /\ off' = [off EXCEPT ![w] = 0]
    /\ pc' = [pc EXCEPT ![w] = "save_write"]
    /\ UNCHANGED <<live, backup, op, arg, devices, ret, out, now, faultsLeft,
                   crashesLeft, before, pre, seen, prev, overlapped, crashAt, expect,
                   committed, raced>>

\* the files after worker w wrote cell c at its offset through its descriptor
Written(w, c) ==
    /\ tmp' = IF fd[w] = "tmp" THEN [tmp EXCEPT !.data = WriteAt(@, off[w], c)] ELSE tmp
    /\ live' = IF fd[w] = "live" THEN [live EXCEPT !.data = WriteAt(@, off[w], c)] ELSE live
    /\ backup' = IF fd[w] = "backup"
                 THEN [backup EXCEPT !.data = WriteAt(@, off[w], c)] ELSE backup

\* registry.py:96-97: json.dump writes the text chunk by chunk; the file is closed
\* after the last chunk
SaveWrite(w) ==
    /\ pc[w] = "save_write"
    /\ LET text == Ser(devices[w])
           last == off[w] + 1 = Len(text)
       IN /\ Written(w, text[off[w] + 1])
          /\ off' = [off EXCEPT ![w] = @ + 1]
          /\ fd' = IF last THEN [fd EXCEPT ![w] = "none"] ELSE fd
          /\ pc' = IF last THEN [pc EXCEPT ![w] = "save_rename"] ELSE pc
    /\ UNCHANGED <<op, arg, devices, ret, out, now, faultsLeft, crashesLeft,
                   before, pre, seen, prev, overlapped, crashAt, expect,
                   committed, raced>>

\* what a call that returned True has promised about its id
Promised(e, o, a) ==
    IF o = "save" THEN [i \in Ids |-> NoExpect]
    ELSE [e EXCEPT ![a.id] =
            IF o = "remove"
            THEN [known |-> TRUE, present |-> FALSE, name |-> "", status |-> ""]
            ELSE IF o = "update_status"
            THEN [known |-> TRUE, present |-> TRUE,
                  name |-> IF @.known /\ @.present THEN @.name ELSE "",
                  status |-> a.status]
            ELSE [known |-> TRUE, present |-> TRUE, name |-> a.name,
                  status |-> IF a.status # MISSING THEN a.status
                             ELSE IF @.known /\ @.present THEN @.status ELSE ""]]

\* registry.py:100-102: temp_file.rename(REGISTRY_FILE); FileNotFoundError when the
\* temporary file is gone
SaveRename(w) ==
    /\ pc[w] = "save_rename"
    /\ IF tmp.ex
       THEN /\ live' = tmp
            /\ tmp' = NoFile
            /\ fd' = Renamed(fd, "tmp", "live")
            /\ pc' = [pc EXCEPT ![w] = "done"]
            /\ ret' = [ret EXCEPT ![w] = "True"]
            /\ expect' = Promised(expect, op[w], arg[w])
            /\ committed' = [any |-> TRUE, list |-> devices[w]]
       ELSE /\ pc' = [pc EXCEPT ![w] = "save_fail"]
            /\ UNCHANGED <<live, tmp, fd, ret, expect, committed>>
    /\ UNCHANGED <<backup, op, arg, devices, off, out, now, faultsLeft,
                   crashesLeft, before, pre, seen, prev, overlapped, crashAt, raced>>

\* registry.py:104-110: the except branch unlinks the temporary file, returns False
SaveFail(w) ==
    /\ pc[w] = "save_fail"
    /\ tmp' = NoFile
    /\ fd' = [Unlinked(fd, "tmp") EXCEPT ![w] = "none"]
    /\ pc' = [pc EXCEPT ![w] = "done"]
    /\ ret' = [ret EXCEPT ![w] = "False"]
    /\ UNCHANGED <<live, backup, op, arg, devices, off, out, now, faultsLeft,
                   crashesLeft, before, pre, seen, prev, overlapped, crashAt, expect,
                   committed, raced>>

\* the call has handed its result to the caller: its locals are gone
Finish(w, M) ==
    /\ pc[w] = "done"
    /\ pc' = [pc EXCEPT ![w] = "idle"]
    /\ prev' = [prev EXCEPT ![w] =
                  IF M.hist
                  THEN [op |-> op[w], id |-> arg[w].id, name |-> arg[w].name,
                        ret |-> ret[w], seen |-> seen[w]]
                  ELSE NoPrev]
    /\ op' = [op EXCEPT ![w] = "none"]
    /\ arg' = [arg EXCEPT ![w] = NoArg]
    /\ devices' = [devices EXCEPT ![w] = <<>>]
    /\ off' = [off EXCEPT ![w] = 0]
    /\ ret' = [ret EXCEPT ![w] = "none"]
    /\ out' = [out EXCEPT ![w] = <<>>]
    /\ pre' = [pre EXCEPT ![w] = NoPre]
    /\ before' = [before EXCEPT ![w] = NoFile]
    /\ seen' = [seen EXCEPT ![w] = 0]
    /\ overlapped' = [overlapped EXCEPT ![w] = FALSE]
    /\ UNCHANGED <<live, tmp, backup, fd, now, faultsLeft, crashesLeft, crashAt, expect,
                   committed, raced>>

(* ----------------------------- environment --------------------------- *)
\* an OSError raised by mkdir, open, write, close or rename (registry.py:92-100);
\* leaving the with block closes the descriptor
IoError(w) ==
    /\ pc[w] \in {"save_open", "save_write", "save_rename"}
    /\ faultsLeft > 0
    /\ faultsLeft' = faultsLeft - 1
    /\ pc' = [pc EXCEPT ![w] = "save_fail"]
    /\ fd' = [fd EXCEPT ![w] = "none"]
    /\ UNCHANGED <<live, tmp, backup, op, arg, devices, off, ret, out, now,
                   crashesLeft, before, pre, seen, prev, overlapped, crashAt, expect,
                   committed, raced>>

\* the process dies while a save is under way and is started again: memory is
\* lost, the files stay as they are
Crash ==
    /\ crashesLeft > 0
    /\ \E w \in Workers : Active(w)
    /\ crashesLeft' = crashesLeft - 1
    /\ crashAt' = pc
    /\ pc' = [w \in Workers |-> "idle"]
    /\ fd' = [w \in Workers |-> "none"]
    /\ ret' = [w \in Workers |-> "none"]
    /\ out' = [w \in Workers |-> <<>>]
    /\ overlapped' = [w \in Workers |-> FALSE]
    /\ UNCHANGED <<live, tmp, backup, op, arg, devices, off, now, faultsLeft,
                   before, pre, seen, prev, expect, committed, raced>>

(* ------------------------- discover_all_devices ----------------------- *)
\* discover.py:17-19, seconds
WIFI_DISCOVERY_TIMEOUT == 8

ZWAVE_DISCOVERY_TIMEOUT == 5

GOVEE_DISCOVERY_TIMEOUT == 5

Families == {"wifi", "zwave", "govee"}

\* Deadline as it would be if the families were awaited one after the other
DeadlineInTurn(f) ==
    IF f = "wifi" THEN WIFI_DISCOVERY_TIMEOUT
    ELSE IF f = "zwave" THEN WIFI_DISCOVERY_TIMEOUT + ZWAVE_DISCOVERY_TIMEOUT
    ELSE WIFI_DISCOVERY_TIMEOUT + ZWAVE_DISCOVERY_TIMEOUT + GOVEE_DISCOVERY_TIMEOUT

\* discover.py:1064-1075, the timeout given to each family's wait_for
Deadline(f) ==
    IF f = "wifi" THEN WIFI_DISCOVERY_TIMEOUT
    ELSE IF f = "zwave" THEN ZWAVE_DISCOVERY_TIMEOUT
    ELSE GOVEE_DISCOVERY_TIMEOUT

\* the lists an adapter may return
Found == UNION {[1..n -> {"dev_a", "dev_b"}] : n \in 0..MaxFound}

NoResult == [f \in Families |-> <<>>]

InitDisc ==
    /\ dpc = "idle"
    /\ clock = 0
    /\ fam = [f \in Families |-> "none"]
    /\ fres = NoResult
    /\ fdone = [f \in Families |-> 0]
    /\ result = NoResult
    /\ returnedAt = 0

\* discover.py:1054-1075: the call creates one task per family, each under its own
\* wait_for; the Govee task only if its module could be imported
discover_all_devices ==
    /\ dpc = "idle"
    /\ \E govee_available \in BOOLEAN :
          fam' = [f \in Families |->
                    IF f = "govee" /\ ~govee_available THEN "none" ELSE "running"]
    /\ dpc' = "gather"
    /\ UNCHANGED <<clock, fres, fdone, result, returnedAt>>

\* a family's adapter returns its list before its wait_for gave up
AdapterReturns(f) ==
    /\ dpc = "gather"
    /\ fam[f] = "running"
    /\ \E r \in Found : fres' = [fres EXCEPT ![f] = r]
    /\ fam' = [fam EXCEPT ![f] = "done"]
    /\ fdone' = [fdone EXCEPT ![f] = clock]
    /\ UNCHANGED <<dpc, clock, result, returnedAt>>

\* a family's adapter raises an exception
AdapterRaises(f) ==
    /\ dpc = "gather"
    /\ fam[f] = "running"
    /\ fam' = [fam EXCEPT ![f] = "raised"]
    /\ fdone' = [fdone EXCEPT ![f] = clock]
    /\ UNCHANGED <<dpc, clock, fres, result, returnedAt>>

\* discover.py:1065, 1068, 1074: wait_for cancels the adapter when the event loop
\* runs its timer, at its deadline or, after the loop was blocked, later, and
\* raises TimeoutError
WaitForTimeout(f) ==
    /\ dpc = "gather"
    /\ fam[f] = "running"
    /\ clock >= Deadline(f)
    /\ fam' = [fam EXCEPT ![f] = "timedout"]
    /\ fdone' = [fdone EXCEPT ![f] = clock]
    /\ UNCHANGED <<dpc, clock, fres, result, returnedAt>>

\* a second passes; a wait_for whose deadline is reached fires first
Tick ==
    /\ dpc = "gather"
    /\ \A f \in Families : fam[f] = "running" => clock < Deadline(f)
    /\ \E f \in Families : fam[f] = "running"
    /\ clock' = clock + 1
    /\ UNCHANGED <<dpc, fam, fres, fdone, result, returnedAt>>

\* Collect as it would be if one family's exception reached the outer handler
CollectAllOrNothing(states, lists) ==
    IF \E f \in Families : states[f] \in {"raised", "timedout"}
    THEN [f \in Families |-> <<>>]
    ELSE [f \in Families |-> IF states[f] = "done" THEN lists[f] ELSE <<>>]

\* discover.py:1087-1107: an exception in a family's place becomes [], a list is
\* passed on; without the Govee module its list is []
Collect(states, lists) ==
    [f \in Families |-> IF states[f] = "done" THEN lists[f] ELSE <<>>]

\* discover.py:1077-1107: gather(return_exceptions=True) resumes the call when
\* every task has ended
GatherReturns ==
    /\ dpc = "gather"
    /\ \A f \in Families : fam[f] # "running"
    /\ result' = Collect(fam, fres)
    /\ returnedAt' = clock
    /\ dpc' = "returned"
    /\ UNCHANGED <<clock, fam, fres, fdone>>

\* govee.py:310-312: the addresses _try_govee_network_scan probes
GOVEE_SCAN_IPS == 11

\* govee.py:318, seconds: sock.settimeout(1.0)
GOVEE_PROBE_TIMEOUT == 1

\* govee.py:47, 77-95, 314-376: when the broadcast sendto raises (network down),
\* _do_govee_scan returns [] at once and _try_govee_network_scan runs; its probes
\* hold no await, each waits in a blocking recvfrom for up to a second on the event
\* loop's thread, and all of them run in one turn of the loop: for that long no
\* timer fires and no other task runs
GoveeScanBlocksLoop ==
    /\ dpc = "gather"
    /\ fam["govee"] = "running"
    /\ clock = 0
    /\ \E silent \in 1..GOVEE_SCAN_IPS : clock' = clock + silent * GOVEE_PROBE_TIMEOUT
    /\ UNCHANGED <<dpc, fam, fres, fdone, result, returnedAt>>

NextDisc ==
    \/ discover_all_devices /\ UNCHANGED notDiscVars
    \/ \E f \in Families : AdapterReturns(f) /\ UNCHANGED notDiscVars
    \/ \E f \in Families : AdapterRaises(f) /\ UNCHANGED notDiscVars
    \/ \E f \in Families : WaitForTimeout(f) /\ UNCHANGED notDiscVars
    \/ Tick /\ UNCHANGED notDiscVars
    \/ GatherReturns /\ UNCHANGED notDiscVars

(* ------------------- discover_wifi_devices: the merge ----------------- *)
\* addresses the sub-strategies report
IPs == {"10.0.0.86", "10.0.0.87"}

\* a device dict without "ip"
NoIp == ""

\* the sub-strategies in the order their lists are concatenated (discover.py:405)
Sources == <<"coiot", "zeroconf", "subnet_scan">>

\* a candidate: its address and the sub-strategy that reported it
Cand(ip, via) == [ip |-> ip, via |-> via]

\* the lists one sub-strategy may return
SubLists(via) ==
    UNION {[1..n -> {Cand(ip, via) : ip \in IPs \cup {NoIp}}] : n \in 0..MaxSubFound}

\* MergeFrom as it would be without the seen_ips test
RECURSIVE MergeKeepAll(_, _, _)
MergeKeepAll(all, seen_ips, acc) ==
    IF all = <<>> THEN acc
    ELSE MergeKeepAll(Tail(all), seen_ips \cup {Head(all).ip}, Append(acc, Head(all)))

\* discover.py:404-414: the loop over all_devices with its set seen_ips
RECURSIVE MergeFrom(_, _, _)
MergeFrom(all, seen_ips, acc) ==
    IF all = <<>> THEN acc
    ELSE LET device == Head(all)
             ip == device.ip
         IN IF ip # NoIp /\ ip \notin seen_ips
            THEN MergeFrom(Tail(all), seen_ips \cup {ip}, Append(acc, device))
            ELSE IF ip = NoIp
            THEN MergeFrom(Tail(all), seen_ips, Append(acc, device))
            ELSE MergeFrom(Tail(all), seen_ips, acc)

\* discover.py:402-414: all_devices = coiot_devices + zeroconf_devices + subnet_devices
MergeWifi(lists) ==
    MergeFrom(lists["coiot"] \o lists["zeroconf"] \o lists["subnet_scan"], {}, <<>>)

NoLists == [v \in {"coiot", "zeroconf", "subnet_scan"} |-> <<>>]

InitMerge ==
    /\ mgIn = NoLists
    /\ mgOut = <<>>
    /\ mgpc = "idle"

\* discover.py:379-400: gather has returned the three lists (an exception or a
\* missing zeroconf library counts as [])
SubStrategiesReturn ==
    /\ mgpc = "idle"
    /\ \E c \in SubLists("coiot"), z \in SubLists("zeroconf"), n \in SubLists("subnet_scan") :
          mgIn' = [coiot |-> c, zeroconf |-> z, subnet_scan |-> n]
    /\ mgpc' = "gathered"
    /\ UNCHANGED mgOut

\* discover.py:402-414
MergeStep ==
    /\ mgpc = "gathered"
    /\ mgOut' = MergeWifi(mgIn)
    /\ mgpc' = "merged"
    /\ UNCHANGED mgIn

NextMerge ==
    \/ SubStrategiesReturn /\ UNCHANGED notMergeVars
    \/ MergeStep /\ UNCHANGED notMergeVars

(* ------------------- _discover_wifi_with_fallback --------------------- *)
\* discover.py:24, seconds the CoIoT listener listens
SHELLY_COIOT_DISCOVERY_TIMEOUT == 3

\* discover.py:691, seconds the zeroconf browse sleeps before it reads its listener
ZEROCONF_WAIT == 5

\* discover.py:560, timeout of the wait_for around discover_wifi_devices()
AUTO_TIMEOUT == 5

Subs == {"coiot", "zeroconf", "subnet_scan"}

\* discover.py:541-550: what the probes of the three fixed addresses found
ManualLists == {<<>>} \cup {<<Cand(ip, "manual")>> : ip \in IPs}

\* the lists a sub-strategy returns inside one run
FlowLists(v) == {<<>>} \cup {<<Cand(ip, v)>> : ip \in IPs}

InitWifi ==
    /\ wpc = "idle"
    /\ autoStart = 0
    /\ sub = [v \in Subs |-> "none"]
    /\ subOut = NoLists
    /\ ranSubs = {}

\* seconds since the automated discovery began
Elapsed == clock - autoStart

\* discover.py:1064-1066: the Wi-Fi task runs _discover_wifi_with_fallback; the
\* runs looked at in detail are those without the Govee module
WifiDiscoverAll ==
    /\ discover_all_devices
    /\ fam'["govee"] = "none"
    /\ wpc' = "manual"
    /\ UNCHANGED <<autoStart, sub, subOut, ranSubs>>

\* discover.py:541-565: the manual probes are over; with a device found the
\* function returns it, otherwise discover_wifi_devices() is started under its
\* wait_for and creates its tasks (discover.py:356-376)
ManualReturns ==
    /\ wpc = "manual"
    /\ fam["wifi"] = "running"
    /\ \E discovered_devices \in ManualLists, zeroconf_available \in BOOLEAN :
          IF discovered_devices # <<>>
          THEN /\ wpc' = "returned"
               /\ fam' = [fam EXCEPT !["wifi"] = "done"]
               /\ fres' = [fres EXCEPT !["wifi"] = discovered_devices]
               /\ fdone' = [fdone EXCEPT !["wifi"] = clock]
               /\ UNCHANGED <<autoStart, sub, ranSubs>>
          ELSE /\ wpc' = "auto"
               /\ autoStart' = clock
               /\ sub' = [v \in Subs |->
                            IF v = "zeroconf" /\ ~zeroconf_available
                            THEN "none" ELSE "running"]
               /\ ranSubs' = {v \in Subs : v # "zeroconf" \/ zeroconf_available}
               /\ UNCHANGED <<fam, fres, fdone>>
    /\ UNCHANGED <<dpc, clock, result, returnedAt, subOut>>

\* the wait_for timer of discover.py:560 is due
InnerTimerDue == Elapsed >= AUTO_TIMEOUT

\* when sub-strategy v can return the list r: the CoIoT listener within its
\* listening time (discover.py:72-101); the zeroconf browse with [] when its set-up
\* raised (discover.py:700-703), with its listener's devices only after its sleep,
\* which begins after the wait_for timer was armed and so ends after that timer
\* is due (discover.py:691); the subnet scan whenever its probes are over
MayReturn(v, r) ==
    IF v = "coiot" THEN Elapsed <= SHELLY_COIOT_DISCOVERY_TIMEOUT
    ELSE IF v = "zeroconf" THEN r = <<>> \/ (Elapsed >= ZEROCONF_WAIT /\ ~InnerTimerDue)
    ELSE TRUE

SubReturns(v) ==
    /\ wpc = "auto"
    /\ sub[v] = "running"
    /\ \E r \in FlowLists(v) :
          /\ MayReturn(v, r)
          /\ subOut' = [subOut EXCEPT ![v] = r]
    /\ sub' = [sub EXCEPT ![v] = "done"]
    /\ UNCHANGED <<discVars, wpc, autoStart, ranSubs>>

Cancelled(states) == [v \in Subs |-> IF states[v] = "running" THEN "cancelled" ELSE states[v]]

\* discover.py:559-563: the wait_for gives up, cancels discover_wifi_devices and its
\* tasks; nothing is added to discovered_devices, which is returned empty
InnerTimeout ==
    /\ wpc = "auto"
    /\ Elapsed = AUTO_TIMEOUT
    /\ sub' = Cancelled(sub)
    /\ wpc' = "returned"
    /\ fam' = [fam EXCEPT !["wifi"] = "done"]
    /\ fres' = [fres EXCEPT !["wifi"] = <<>>]
    /\ fdone' = [fdone EXCEPT !["wifi"] = clock]
    /\ UNCHANGED <<dpc, clock, result, returnedAt, autoStart, subOut, ranSubs>>

\* AutoGathered as it would be if the merge did not wait for every task
AutoFirstCompleted ==
    /\ wpc = "auto"
    /\ \E v \in Subs : sub[v] = "done"
    /\ wpc' = "returned"
    /\ fam' = [fam EXCEPT !["wifi"] = "done"]
    /\ fres' = [fres EXCEPT !["wifi"] =
                   MergeWifi([v \in Subs |-> IF sub[v] = "done" THEN subOut[v] ELSE <<>>])]
    /\ fdone' = [fdone EXCEPT !["wifi"] = clock]
    /\ UNCHANGED <<dpc, clock, result, returnedAt, autoStart, sub, subOut, ranSubs>>

\* discover.py:379-416, 560-561: every task of discover_wifi_devices has ended;
\* the lists are merged and returned
AutoGathered ==
    /\ wpc = "auto"
    /\ \A v \in Subs : sub[v] # "running"
    /\ wpc' = "returned"
    /\ fam' = [fam EXCEPT !["wifi"] = "done"]
    /\ fres' = [fres EXCEPT !["wifi"] =
                   MergeWifi([v \in Subs |-> IF sub[v] = "done" THEN subOut[v] ELSE <<>>])]
    /\ fdone' = [fdone EXCEPT !["wifi"] = clock]
    /\ UNCHANGED <<dpc, clock, result, returnedAt, autoStart, sub, subOut, ranSubs>>

\* discover.py:1065: the family's wait_for cancels _discover_wifi_with_fallback
WifiOuterTimeout ==
    /\ WaitForTimeout("wifi")
    /\ wpc' = "cancelled"
    /\ sub' = Cancelled(sub)
    /\ UNCHANGED <<autoStart, subOut, ranSubs>>

\* a second passes; the timers that are due fire first, and a gather whose tasks
\* have all ended resumes at once
WifiTick ==
    /\ Tick
    /\ wpc = "auto" =>
          /\ ~InnerTimerDue
          /\ sub["coiot"] = "running" => Elapsed < SHELLY_COIOT_DISCOVERY_TIMEOUT
          /\ \E v \in Subs : sub[v] = "running"
    /\ UNCHANGED wifiVars

OtherFamilies == Families \ {"wifi"}

NextWifi ==
    \/ WifiDiscoverAll /\ UNCHANGED notWifiVars
    \/ ManualReturns /\ UNCHANGED notWifiVars
    \/ \E v \in Subs : SubReturns(v) /\ UNCHANGED notWifiVars
    \/ InnerTimeout /\ UNCHANGED notWifiVars
    \/ AutoGathered /\ UNCHANGED notWifiVars
    \/ WifiOuterTimeout /\ UNCHANGED notWifiVars
    \/ WifiTick /\ UNCHANGED notWifiVars
    \/ \E f \in OtherFamilies : AdapterReturns(f) /\ UNCHANGED notDiscVars
    \/ \E f \in OtherFamilies : AdapterRaises(f) /\ UNCHANGED notDiscVars
    \/ \E f \in OtherFamilies : WaitForTimeout(f) /\ UNCHANGED notDiscVars
    \/ GatherReturns /\ UNCHANGED notDiscVars

(* --------------------- discover_shelly_subnet_scan -------------------- *)
\* discover.py:859: asyncio.Semaphore(3)
PROBE_LIMIT == 3

Candidates == 1..MaxProbes

InitProbe ==
    /\ probe = [p \in Candidates |-> "none"]
    /\ sem = PROBE_LIMIT

\* the probes with a request in flight
InFlight == {p \in Candidates : probe[p] \in {"gen2", "gen1"}}

\* discover.py:855-866: the semaphore is created, one task per address in test_ips
ScanStart ==
    /\ \A p \in Candidates : probe[p] = "none"
    /\ \E n \in Candidates :
          probe' = [p \in Candidates |-> IF p <= n THEN "waiting" ELSE "none"]
    /\ sem' = PROBE_LIMIT

\* ProbeAcquire as it would be without the semaphore
ProbeUnlimited(p) ==
    /\ probe[p] = "waiting"
    /\ probe' = [probe EXCEPT ![p] = "gen2"]
    /\ sem' = sem - 1

\* discover.py:861-863, 756-763: `async with semaphore` is entered when the value
\* is positive; test_shelly_device sends its Gen2 request
ProbeAcquire(p) ==
    /\ probe[p] = "waiting"
    /\ sem > 0
    /\ sem' = sem - 1
    /\ probe' = [probe EXCEPT ![p] = "gen2"]

\* discover.py:760-790: the Gen2 request is over (answer, error or 3 s timeout);
\* a Gen2 device is returned and the semaphore released, otherwise the Gen1
\* request is sent
Gen2Ends(p) ==
    /\ probe[p] = "gen2"
    /\ \E is_gen2 \in BOOLEAN :
          IF is_gen2
          THEN /\ probe' = [probe EXCEPT ![p] = "done"]
               /\ sem' = sem + 1
          ELSE /\ probe' = [probe EXCEPT ![p] = "gen1"]
               /\ UNCHANGED sem

\* discover.py:792-825, 861-863: the Gen1 request is over, the probe returns and
\* leaves the `async with`
Gen1Ends(p) ==
    /\ probe[p] = "gen1"
    /\ probe' = [probe EXCEPT ![p] = "done"]
    /\ sem' = sem + 1

\* discover.py:560: the scan is cancelled; a probe inside the `async with` leaves it
ScanCancelled ==
    /\ \E p \in Candidates : probe[p] \in {"waiting", "gen2", "gen1"}
    /\ probe' = [p \in Candidates |->
                    IF probe[p] \in {"waiting", "gen2", "gen1"} THEN "cancelled"
                    ELSE probe[p]]
    /\ sem' = sem + Cardinality(InFlight)

NextProbe ==
    \/ ScanStart /\ UNCHANGED notProbeVars
    \/ \E p \in Candidates : ProbeAcquire(p) /\ UNCHANGED notProbeVars
    \/ \E p \in Candidates : Gen2Ends(p) /\ UNCHANGED notProbeVars
    \/ \E p \in Candidates : Gen1Ends(p) /\ UNCHANGED notProbeVars
    \/ ScanCancelled /\ UNCHANGED notProbeVars

(* ------------------------ discover_zwave_devices ---------------------- *)
NodeIds == 1..MaxNodes

\* discover.py:979: node 1 is the controller itself
CONTROLLER_NODE == 1

InitZwave ==
    /\ zpc = "idle"
    /\ zenv = [lib |-> FALSE, reach |-> FALSE]
    /\ znode = [n \in NodeIds |-> "absent"]
    /\ zres = {}
    /\ mockRan = FALSE
    /\ zBefore = [live |-> NoFile, backup |-> NoFile]

\* discover.py:880-894: the run begins; the environment it meets
ZwaveStart ==
    /\ zpc = "idle"
    /\ zpc' = "zwavejs"
    /\ \E lib \in BOOLEAN, reach \in BOOLEAN : zenv' = [lib |-> lib, reach |-> reach]
    /\ znode' \in [NodeIds -> {"absent", "ready", "notready"}]
    /\ znode'[CONTROLLER_NODE] = "ready"
    /\ zBefore' = [live |-> live, backup |-> backup]
    /\ UNCHANGED <<zres, mockRan, live, backup, fd, now>>

\* discover.py:974-977: the node ids of the registered Z-Wave devices; the records
\* of the registry model carry no node_id, so any set is possible that the loaded
\* list has Z-Wave records for
ExistingNodeIds(loaded) ==
    IF \E i \in 1..Len(loaded) : loaded[i].type = "zwave"
    THEN SUBSET (NodeIds \ {CONTROLLER_NODE})
    ELSE {{}}

\* discover.py:979-989: the nodes that become candidates
NewNodes(existing) ==
    {n \in NodeIds : n # CONTROLLER_NODE /\ n \notin existing /\ znode[n] = "ready"}

\* discover.py:894-897: the next step after _try_zwavejs_discovery returned
AfterZwavejs(found) == IF found = {} THEN "openzwave" ELSE "returned"

\* discover.py:935-1030: _try_zwavejs_discovery returns. Without the library or
\* without a connection it returns [] at once; with both it loads the registry
\* and lists the ready nodes that are not registered
ZwavejsReturns ==
    /\ zpc = "zwavejs"
    /\ IF zenv.lib /\ zenv.reach
       THEN \E rdErr \in BOOLEAN :
              /\ LoadEffect(rdErr)
              /\ now' = now + 1
              /\ \E existing \in ExistingNodeIds(LoadResult(rdErr)) :
                    /\ zres' = NewNodes(existing)
                    /\ zpc' = AfterZwavejs(NewNodes(existing))
       ELSE /\ zres' = {}
            /\ zpc' = AfterZwavejs({})
            /\ UNCHANGED <<live, backup, fd, now>>
    /\ UNCHANGED <<zenv, znode, mockRan, zBefore>>

\* discover.py:897-898, 913-933: _try_openzwave_discovery returns [] in every case
OpenzwaveReturns ==
    /\ zpc = "openzwave"
    /\ zpc' = "mock"
    /\ zres' = {}
    /\ UNCHANGED <<zenv, znode, mockRan, zBefore, live, backup, fd, now>>

\* discover.py:900-905, 1032-1042: _try_mock_zwave_discovery returns []
MockReturns ==
    /\ zpc = "mock"
    /\ mockRan' = TRUE
    /\ zres' = {}
    /\ zpc' = "returned"
    /\ UNCHANGED <<zenv, znode, zBefore, live, backup, fd, now>>

NextZwave ==
    \/ ZwaveStart /\ UNCHANGED notZwaveVars
    \/ ZwavejsReturns /\ UNCHANGED notZwaveVars
    \/ OpenzwaveReturns /\ UNCHANGED notZwaveVars
    \/ MockReturns /\ UNCHANGED notZwaveVars

(* ------------------------- control_device_state ---------------------- *)
\* a status call that was not made
NoStatus == [called |-> FALSE, type |-> "", res |-> "none", sent |-> FALSE, waited |-> FALSE]

InitCtl ==
    /\ cpc = "idle"
    /\ creq = [id |-> "", want |-> MISSING]
    /\ cdev = [gen |-> "gen1", relay |-> "off"]
    /\ cdet = "none"
    /\ cacked = FALSE
    /\ cobs = "none"
    /\ cret = "none"
    /\ cresp = "none"
    /\ cold = NoRec
    /\ cgot = NoRec
    /\ csent = FALSE
    /\ cwaited = FALSE
    /\ stat = NoStatus

\* a record added through onboarding
Onboarded(id, type, st) ==
    [id |-> id, name |-> "Plug", type |-> type, status |-> st,
     added_at |-> 1, updated_at |-> None, last_seen |-> None]

\* AdapterTypes as it would be if the dispatch had no else branch
EveryType == {"wifi", "zwave", "govee", "thread"}

\* the types with an adapter (devices.py:207-243, device_protocols.py:189-196)
AdapterTypes == {"wifi", "zwave", "govee"}

\* "thread" stands for every type without an adapter
DeviceTypes == AdapterTypes \cup {"thread"}

\* the registries a control request may find
CtlLists ==
    {<<>>}
      \cup {<<Onboarded("plug1", "wifi", st)>> : st \in Statuses}
      \cup {<<Onboarded("plug1", "wifi", st), Onboarded("kitchen_switch", "zwave", st)>> :
               st \in Statuses}
      \cup {<<Onboarded("plug1", "govee", "off"), Onboarded("kitchen_switch", "thread", "off")>>}

\* devices.py:209, 217: the records of the registry model carry no ip and no
\* node_id. A sample record (registry.py:37-56) has neither; an onboarded record
\* may have one
HasAddress(rec) ==
    IF \E i \in 1..2 : rec = Seed(rec.added_at)[i] THEN {FALSE} ELSE {FALSE, TRUE}

\* devices.py:254: "on" if payload.state.get("on", False) else "off"
NewStatus(want) == IF want = "on" THEN "on" ELSE "off"

\* the handler raises an HTTPException
Raise(code) ==
    /\ cresp' = code
    /\ cpc' = "returned"

\* devices.py:251-282: the adapter returned
AfterCommand(success) ==
    /\ cret' = IF success THEN "True" ELSE "False"
    /\ IF success
       THEN cpc' = "update" /\ UNCHANGED cresp
       ELSE Raise("500")

\* devices.py:286-291: an exception of the adapter reaches the handler's
\* `except Exception`
AdapterRaised ==
    /\ cret' = "raised"
    /\ Raise("500")

(* what a device may answer to one request *)
\* no answer at all, no answer in time, an HTTP error status, a body that is no
\* JSON, JSON that is no object
Failures == {"unreachable", "timeout", "http_error", "not_json", "not_object"}

\* "ok": the expected object; "no_field": an object without the state field
Responses == {"ok", "no_field"} \cup Failures

\* the exception a failure surfaces as: httpx.ConnectError, httpx.TimeoutException,
\* httpx.HTTPStatusError (raise_for_status), json.JSONDecodeError (response.json()),
\* AttributeError (result.get on a list)
ExcOf(failure) ==
    CASE failure = "unreachable" -> "ConnectError"
      [] failure = "timeout" -> "TimeoutException"
      [] failure = "http_error" -> "HTTPStatusError"
      [] failure = "not_json" -> "JSONDecodeError"
      [] OTHER -> "AttributeError"

\* the classes an exception is an instance of
Ancestors(exc) ==
    CASE exc \in {"ConnectError", "TimeoutException"} -> {exc, "RequestError", "Exception"}
      [] exc \in {"JSONDecodeError", "UnicodeDecodeError"} -> {exc, "ValueError", "Exception"}
      [] OTHER -> {exc, "Exception"}

\* device_protocols.py:130-141: the except clauses of send_shelly_command
SHELLY_SEND_HANDLERS ==
    {"RequestError", "HTTPStatusError", "KeyError", "ValueError", "Exception"}

\* device_protocols.py:258, govee.py:226, 281: `except Exception`
CATCH_ALL == {"Exception"}

Handles(handlers, exc) == Ancestors(exc) \cap handlers # {}

\* devices.py:187-249: the handler looks the device up and picks the adapter;
\* device_protocols.py:67-72: a payload without "on" fails at once;
\* device_protocols.py:144-173: send_zwave_command returns True
ControlStart ==
    /\ cpc = "idle"
    /\ LoadEffect(FALSE)
    /\ now' = now + 1
    /\ \E id \in Ids, want \in Statuses \cup {MISSING} :
         LET loaded == Loaded(now + 1)
             i == Find(loaded, id)
         IN /\ creq' = [id |-> id, want |-> want]
            /\ \E gen \in {"gen1", "gen2"}, relay \in Statuses :
                  cdev' = [gen |-> gen, relay |-> relay]
            /\ IF i = 0
               THEN Raise("404") /\ UNCHANGED <<cret, cold>>
               ELSE /\ cold' = loaded[i]
                    /\ IF loaded[i].type \notin AdapterTypes
                       THEN Raise("unsupported") /\ UNCHANGED cret
                       ELSE \E addr \in HasAddress(loaded[i]) :
                              IF ~addr
                              THEN Raise("400") /\ UNCHANGED cret
                              ELSE IF loaded[i].type = "wifi"
                              THEN IF want = MISSING
                                   THEN AfterCommand(FALSE)
                                   ELSE cpc' = "detect" /\ UNCHANGED <<cret, cresp>>
                              ELSE IF loaded[i].type = "zwave"
                              THEN AfterCommand(TRUE)
                              ELSE cpc' = "govee" /\ UNCHANGED <<cret, cresp>>
    /\ UNCHANGED <<cdet, cacked, cobs, cgot, csent, cwaited, stat>>

\* device_protocols.py:12-51: Gen2 when /rpc/Switch.GetStatus answers with an
\* "output"; in every other case, a device that did not answer included, Gen1
Detected(reach) == IF reach /\ cdev.gen = "gen2" THEN "gen2" ELSE "gen1"

\* device_protocols.py:77
Detect ==
    /\ cpc = "detect"
    /\ \E reach \in BOOLEAN :
         /\ cdet' = Detected(reach)
         /\ cwaited' = (cwaited \/ ~reach)
    /\ csent' = TRUE
    /\ cpc' = "command"
    /\ UNCHANGED <<creq, cdev, cacked, cobs, cret, cresp, cold, cgot, stat,
                   live, backup, fd, now>>

\* a relay that answers does not know the other generation's path
Answer(resp) ==
    IF cdet # cdev.gen /\ resp \notin {"unreachable", "timeout"} THEN "http_error" ELSE resp

\* device_protocols.py:79-87, 107-115: the command request. An answering relay
\* may or may not have switched. The Gen2 branch does not read the body.
\* device_protocols.py:117-128: for Gen1 the "ison" of the command's own reply
\* (False when the reply has none) is compared with the command and no status
\* is read. device_protocols.py:130-141: the exceptions
Command ==
    /\ cpc = "command"
    /\ csent' = TRUE
    /\ \E resp \in Responses, switched \in BOOLEAN :
         LET relay == IF switched THEN creq.want ELSE cdev.relay
             answer == Answer(resp)
             status200 == answer \notin {"unreachable", "timeout", "http_error"}
             ison == IF answer = "no_field" THEN "off" ELSE relay
         IN /\ cwaited' = (cwaited \/ answer = "timeout")
            /\ IF ~status200 \/ (cdet = "gen1" /\ answer \in Failures)
               THEN /\ IF Handles(SHELLY_SEND_HANDLERS, ExcOf(answer))
                       THEN AfterCommand(FALSE)
                       ELSE AdapterRaised
                    /\ cacked' = (cacked \/ status200)
                    /\ cdev' = IF status200 THEN [cdev EXCEPT !.relay = relay] ELSE cdev
               ELSE /\ cacked' = TRUE
                    /\ cdev' = [cdev EXCEPT !.relay = relay]
                    /\ IF cdet = "gen2"
                       THEN cpc' = "verify" /\ UNCHANGED <<cret, cresp>>
                       ELSE AfterCommand(ison = creq.want)
    /\ UNCHANGED <<creq, cdet, cobs, cold, cgot, stat, live, backup, fd, now>>

\* device_protocols.py:206-260: what get_shelly_status returns for an answer:
\* "absent" (None) for every failure, the relay's output otherwise, an absent
\* state field read as off
ShellyStatus(answer, relay) ==
    IF answer \in Failures
    THEN IF Handles(CATCH_ALL, ExcOf(answer)) THEN "absent" ELSE "raised"
    ELSE IF answer = "no_field" THEN "off" ELSE relay

\* device_protocols.py:89-105: Gen2 only: after 0.1 s get_shelly_status reads the
\* status
Verify ==
    /\ cpc = "verify"
    /\ csent' = TRUE
    /\ \E resp \in Responses :
         LET verification == ShellyStatus(resp, cdev.relay)
         IN /\ cwaited' = (cwaited \/ resp = "timeout")
            /\ IF verification = "raised"
               THEN AdapterRaised /\ UNCHANGED cobs
               ELSE IF verification = "absent"
               THEN AfterCommand(FALSE) /\ UNCHANGED cobs
               ELSE cobs' = verification /\ AfterCommand(verification = creq.want)
    /\ UNCHANGED <<creq, cdev, cdet, cacked, cold, cgot, stat, live, backup, fd, now>>

\* the exceptions of the UDP socket and of decoding its datagram: OSError
\* (sendto), socket.timeout (recvfrom), UnicodeDecodeError or JSONDecodeError
GoveeExcOf(failure) ==
    CASE failure = "unreachable" -> "OSError"
      [] failure = "timeout" -> "socket.timeout"
      [] failure = "not_json" -> "UnicodeDecodeError"
      [] OTHER -> ExcOf(failure)

\* govee.py:177-228: send_govee_command. sendto fails without a route
\* ("unreachable"); a reply that does not come within 2 s is passed over;
\* a reply that cannot be decoded raises inside the adapter
GoveeCommand ==
    /\ cpc = "govee"
    /\ \E resp \in {"ok", "unreachable", "timeout", "not_json"} :
         /\ csent' = (resp # "unreachable")
         /\ cwaited' = (resp = "timeout")
         /\ cacked' = (resp \in {"ok", "not_json"})
         /\ IF resp \in {"ok", "timeout"}
            THEN AfterCommand(TRUE)
            ELSE IF Handles(CATCH_ALL, GoveeExcOf(resp))
            THEN AfterCommand(FALSE)
            ELSE AdapterRaised
    /\ UNCHANGED <<creq, cdev, cdet, cobs, cold, cgot, stat, live, backup, fd, now>>

\* govee.py:230-283: what get_govee_status returns for an answer; onOff is read
\* with the default 0
GoveeStatus(answer, light) ==
    IF answer \in Failures
    THEN IF Handles(CATCH_ALL, GoveeExcOf(answer))
         THEN "absent" ELSE "raised"
    ELSE IF answer = "no_field" THEN "off" ELSE light

\* device_protocols.py:176-203: the adapter's status call for a device of any
\* type, with or without its address; get_zwave_status (263-287) is a mock
get_device_status ==
    /\ ~stat.called
    /\ \E type \in DeviceTypes, addr \in BOOLEAN, resp \in Responses, state \in Statuses :
         stat' = IF type \in {"wifi", "govee"} /\ addr
                 THEN [called |-> TRUE, type |-> type,
                       res |-> IF type = "wifi" THEN ShellyStatus(resp, state)
                               ELSE GoveeStatus(resp, state),
                       sent |-> ~(type = "govee" /\ resp = "unreachable"),
                       waited |-> resp = "timeout"]
                 ELSE IF type = "zwave" /\ addr
                 THEN [called |-> TRUE, type |-> type, res |-> "off",
                       sent |-> FALSE, waited |-> FALSE]
                 ELSE [called |-> TRUE, type |-> type, res |-> "absent",
                       sent |-> FALSE, waited |-> FALSE]
    /\ UNCHANGED <<cpc, creq, cdev, cdet, cacked, cobs, cret, cresp, cold, cgot, csent,
                   cwaited, live, backup, fd, now>>

\* registry.py:272, 279, 280, devices.py:264: get_device, load_registry,
\* save_registry, get_device
REGISTRY_CALLS == 4

\* registry.py:271-281: update_device_in_registry changes the dict get_device
\* returned, then loads the registry again and saves that list;
\* devices.py:256-275: the handler reads the device back and answers
Update ==
    /\ cpc = "update"
    /\ LET loaded == Loaded(now + 1)
           i == Find(loaded, creq.id)
       IN IF i = 0
          THEN /\ Raise("500")
               /\ LoadEffect(FALSE)
               /\ UNCHANGED cgot
          ELSE /\ live' = File(Ser(loaded))
               /\ cgot' = loaded[i]
               /\ cresp' = "success"
               /\ cpc' = "returned"
               /\ UNCHANGED <<backup, fd>>
    /\ now' = now + REGISTRY_CALLS
    /\ UNCHANGED <<creq, cdev, cdet, cacked, cobs, cret, cold, csent, cwaited, stat>>

NextCtl ==
    \/ ControlStart /\ UNCHANGED notCtlVars
    \/ Detect /\ UNCHANGED notCtlVars
    \/ Command /\ UNCHANGED notCtlVars
    \/ Verify /\ UNCHANGED notCtlVars
    \/ Update /\ UNCHANGED notCtlVars
    \/ GoveeCommand /\ UNCHANGED notCtlVars
    \/ get_device_status /\ UNCHANGED notCtlVars

(* ------------------------------ telemetry ---------------------------- *)
\* telemetry.py:143, 183: the retention caps
DISCOVERY_CAP == 50

ONBOARDING_CAP == 100

Kinds == {"discovery", "onboarding"}

\* a telemetry file: missing; "junk", text that is no JSON; "scalar", a JSON
\* number, true, false or null; "nokeys", a JSON list, string or object without
\* both history keys; "doc", an object with both. An event is the number it was
\* logged as within its kind
TelFile(kind, disc, onb) == [kind |-> kind, disc |-> disc, onb |-> onb]

Broken(kind) == TelFile(kind, <<>>, <<>>)

\* telemetry.py:35-42, 77-84: the empty structure
EmptyDoc == TelFile("doc", <<>>, <<>>)

\* Capped as it would be if the slice kept the oldest events
CappedOldest(history, cap) ==
    IF Len(history) <= cap THEN history ELSE SubSeq(history, 1, cap)

\* history[-cap:]
Capped(history, cap) ==
    IF Len(history) <= cap THEN history
    ELSE SubSeq(history, Len(history) - cap + 1, Len(history))

\* WithEvent as it would be if one slice were applied to both histories
WithEventBothCapped(data, kind, n) ==
    IF kind = "discovery"
    THEN [data EXCEPT !.disc = Capped(Append(@, n), DISCOVERY_CAP),
                      !.onb = Capped(@, DISCOVERY_CAP)]
    ELSE [data EXCEPT !.onb = Capped(Append(@, n), ONBOARDING_CAP),
                      !.disc = Capped(@, ONBOARDING_CAP)]

\* telemetry.py:141-143, 181-183: append, then keep the last cap events
WithEvent(data, kind, n) ==
    IF kind = "discovery"
    THEN [data EXCEPT !.disc = Capped(Append(@, n), DISCOVERY_CAP)]
    ELSE [data EXCEPT !.onb = Capped(Append(@, n), ONBOARDING_CAP)]

\* where a write may fail: copying to the backup, writing the temporary file,
\* moving it over the primary
WriteFaults == {"copy", "temp", "move"}

\* telemetry.py:86-113, _write_telemetry_data: the files after it ran and
\* whether it returned (ok) or raised. The primary is copied over the backup
\* first, whatever it holds
Write(prim, bak, data, fault) ==
    IF fault = "copy" /\ prim.kind # "missing"
    THEN [prim |-> prim, bak |-> bak, ok |-> FALSE]
    ELSE LET copied == IF prim.kind # "missing" THEN prim ELSE bak
         IN IF fault \in {"temp", "move"}
            THEN [prim |-> prim, bak |-> copied, ok |-> FALSE]
            ELSE [prim |-> data, bak |-> copied, ok |-> TRUE]

\* telemetry.py:64-84: the backup is tried. Any JSON it holds is written back to
\* the primary and returned; an OSError of that write is caught like a read error
ReadBackup(prim, bak, fault) ==
    IF bak.kind \in {"missing", "junk"}
    THEN [raised |-> FALSE, data |-> EmptyDoc, prim |-> prim, bak |-> bak,
          restored |-> FALSE]
    ELSE LET w == Write(prim, bak, bak, fault)
         IN [raised |-> FALSE, data |-> IF w.ok THEN bak ELSE EmptyDoc,
             prim |-> w.prim, bak |-> w.bak, restored |-> w.ok]

\* telemetry.py:45-84, _read_telemetry_data. `"discovery_history" in data` raises
\* a TypeError for a number, a boolean or null, which no except clause here
\* catches
Read(prim, bak, fault) ==
    IF prim.kind = "doc"
    THEN [raised |-> FALSE, data |-> prim, prim |-> prim, bak |-> bak, restored |-> FALSE]
    ELSE IF prim.kind = "scalar"
    THEN [raised |-> TRUE, data |-> EmptyDoc, prim |-> prim, bak |-> bak,
          restored |-> FALSE]
    ELSE ReadBackup(prim, bak, fault)

\* the faults the environment may inject into one write
TelFaults == IF tfaults > 0 THEN WriteFaults \cup {"none"} ELSE {"none"}

Injected(f1, f2) == (IF f1 = "none" THEN 0 ELSE 1) + (IF f2 = "none" THEN 0 ELSE 1)

Last(o, r, rd) ==
    [op |-> o, ret |-> r, prim |-> tprim, bak |-> tbak, restored |-> rd]

\* telemetry.py:115-151, 153-191: log_discovery_event and log_onboarding_event;
\* every exception ends in `return False`
Log(kind, M) ==
    /\ tapp = "up"
    /\ tnum[kind] < M[kind]
    /\ \E f1 \in TelFaults, f2 \in TelFaults :
         LET r == Read(tprim, tbak, f1)
             data == WithEvent(r.data, kind, tnum[kind] + 1)
             w == Write(r.prim, r.bak, data, f2)
             fails == r.raised \/ r.data.kind # "doc"
             exc == IF r.raised THEN "TypeError"
                    ELSE IF r.data.kind # "doc" THEN "KeyError" ELSE "OSError"
             failed == IF Handles(CATCH_ALL, exc) THEN "False" ELSE "raised"
         IN /\ Injected(f1, f2) <= tfaults
            /\ tfaults' = tfaults - Injected(f1, f2)
            /\ tprim' = IF fails THEN r.prim ELSE w.prim
            /\ tbak' = IF fails THEN r.bak ELSE w.bak
            /\ tlast' = Last(kind, IF ~fails /\ w.ok THEN "True" ELSE failed, r.restored)
            /\ tcommitted' = IF ~fails /\ w.ok THEN data
                             ELSE IF r.restored THEN r.data ELSE tcommitted
    /\ tnum' = [tnum EXCEPT ![kind] = @ + 1]
    /\ UNCHANGED <<tdamage, tapp>>

log_discovery_event(M) == Log("discovery", M)

log_onboarding_event(M) == Log("onboarding", M)

\* telemetry.py:193-233: get_discovery_history and get_onboarding_history read
\* the document; what raises ends in `return []`
get_history ==
    /\ tapp = "up"
    /\ tlast.op # "read"
    /\ \E f1 \in TelFaults :
         LET r == Read(tprim, tbak, f1)
         IN /\ Injected(f1, "none") <= tfaults
            /\ tfaults' = tfaults - Injected(f1, "none")
            /\ tprim' = r.prim
            /\ tbak' = r.bak
            /\ tlast' = Last("read", IF r.raised THEN "[]" ELSE "history", r.restored)
            /\ tcommitted' = IF r.restored THEN r.data ELSE tcommitted
    /\ UNCHANGED <<tnum, tdamage, tapp>>

\* the environment damages or removes the primary file
Damage ==
    /\ tdamage > 0
    /\ tdamage' = tdamage - 1
    /\ \E kind \in {"missing", "junk", "scalar", "nokeys"} : tprim' = Broken(kind)
    /\ tlast' = Last("damage", "none", FALSE)
    /\ UNCHANGED <<tbak, tnum, tcommitted, tfaults, tapp>>

\* telemetry.py:22-43, 269, devices.py:24: the process is started again. Importing
\* the API module builds the TelemetryManager, which writes the empty structure
\* when the primary is missing; nothing catches an error of that write
Restart ==
    /\ tapp = "up"
    /\ tlast.op # "start"
    /\ \E fault \in TelFaults :
         LET w == IF tprim.kind = "missing" THEN Write(tprim, tbak, EmptyDoc, fault)
                  ELSE [prim |-> tprim, bak |-> tbak, ok |-> TRUE]
         IN /\ Injected(fault, "none") <= tfaults
            /\ tfaults' = tfaults - Injected(fault, "none")
            /\ tprim' = w.prim
            /\ tbak' = w.bak
            /\ tapp' = IF w.ok THEN "up" ELSE "crashed"
            /\ tlast' = Last("start", IF w.ok THEN "none" ELSE "raised", FALSE)
            /\ tcommitted' = IF w.ok /\ tprim.kind = "missing" THEN EmptyDoc ELSE tcommitted
    /\ UNCHANGED <<tnum, tdamage>>

\* telemetry.py:22-43: after TelemetryManager() the primary holds the empty structure
InitTel ==
    /\ tprim = EmptyDoc
    /\ tbak = Broken("missing")
    /\ tnum = [k \in Kinds |-> 0]
    /\ tlast = [op |-> "none", ret |-> "none", prim |-> EmptyDoc,
                bak |-> Broken("missing"), restored |-> FALSE]
    /\ tcommitted = EmptyDoc
    /\ tapp = "up"

\* no write error is injected and no file is damaged
SoundTelemetry ==
    /\ tfaults = 0
    /\ tdamage = 0

\* long runs of log calls: each history passes its cap
LongRun == [discovery |-> DISCOVERY_CAP + MaxOver, onboarding |-> ONBOARDING_CAP + MaxOver]

\* short runs with damaged files and failing writes
ShortRun == [discovery |-> MaxTelOps, onboarding |-> MaxTelOps]

NextTelLog ==
    \/ log_discovery_event(LongRun) /\ UNCHANGED notTelVars
    \/ log_onboarding_event(LongRun) /\ UNCHANGED notTelVars

NextTel ==
    \/ log_discovery_event(ShortRun) /\ UNCHANGED notTelVars
    \/ log_onboarding_event(ShortRun) /\ UNCHANGED notTelVars
    \/ get_history /\ UNCHANGED notTelVars
    \/ Damage /\ UNCHANGED notTelVars
    \/ Restart /\ UNCHANGED notTelVars

(* ----------------------------- add requests --------------------------- *)
Handlers == {1, 2}

\* the router of app/api/devices.py and the router of devices.py (main.py:25)
Layers == {"api", "legacy"}

AddIds == {"lamp", "Lamp"}

SAMPLE_IP == "192.168.1.100"

\* Python's None for a node_id
NoNode == 0

\* registry.py:37-56, the sample devices with their transport addresses
SampleDevices(t) ==
    << [id |-> "living_room_light", name |-> "Living Room Light", type |-> "wifi",
        status |-> "unknown", ip |-> SAMPLE_IP, node_id |-> NoNode,
        added_at |-> t, updated_at |-> None, last_seen |-> None],
       [id |-> "kitchen_switch", name |-> "Kitchen Switch", type |-> "zwave",
        status |-> "unknown", ip |-> NoIp, node_id |-> 2,
        added_at |-> t, updated_at |-> None, last_seen |-> None] >>

\* the type and the transport address of a request body
Transports ==
    {<<"wifi", "10.0.0.5", NoNode>>, <<"wifi", SAMPLE_IP, NoNode>>,
     <<"wifi", NoIp, NoNode>>, <<"zwave", NoIp, 3>>, <<"zwave", NoIp, NoNode>>,
     <<"govee", "10.0.0.5", NoNode>>}

AddRequests ==
    {[layer |-> l, id |-> id, type |-> tr[1], ip |-> tr[2], node_id |-> tr[3]] :
        l \in Layers, id \in AddIds, tr \in Transports}

NoRequest == [layer |-> "", id |-> "", type |-> "", ip |-> NoIp, node_id |-> NoNode]

NoDevice ==
    [id |-> "", name |-> "", type |-> "", status |-> "", ip |-> NoIp,
     node_id |-> NoNode, added_at |-> None, updated_at |-> None, last_seen |-> None]

\* models.py:37-77: what pydantic accepts as a DeviceAdd body
DeviceAdd(req) ==
    /\ req.type \in {"wifi", "zwave"}
    /\ req.type = "wifi" => req.ip # NoIp
    /\ req.type = "zwave" => req.node_id # NoNode

\* str.lower() on the ids in use
Lower(id) == IF id = "Lamp" THEN "lamp" ELSE id

\* api/devices.py:69 and devices.py:54: the id the handler looks up and stores
DeviceId(req) == IF req.layer = "api" THEN Lower(req.id) ELSE req.id

\* api/devices.py:102-121 and devices.py:62-68: Device(...).dict(); the legacy
\* router passes neither node_id nor a timestamp
Device(req, t) ==
    IF req.layer = "api"
    THEN [id |-> DeviceId(req), name |-> "Lamp", type |-> req.type, status |-> "off",
          ip |-> IF req.type = "wifi" THEN req.ip ELSE NoIp,
          node_id |-> IF req.type = "zwave" THEN req.node_id ELSE NoNode,
          added_at |-> t, updated_at |-> None, last_seen |-> t]
    ELSE [id |-> DeviceId(req), name |-> "Lamp", type |-> req.type, status |-> "off",
          ip |-> req.ip, node_id |-> NoNode,
          added_at |-> None, updated_at |-> None, last_seen |-> None]

\* registry.py:156-172 for a dict that holds every key of Device:
\* existing_device.update(device_data) replaces each of them
add_device_to_registry(loaded, data, t) ==
    LET i == Find(loaded, data.id) IN
    IF i > 0
    THEN [loaded EXCEPT ![i] = [data EXCEPT !.updated_at = t]]
    ELSE Append(loaded, [data EXCEPT !.added_at = t, !.last_seen = None])

\* the onboarding events of a run
AddRun == [discovery |-> 0, onboarding |-> 2 * MaxAddOps]

\* api/devices.py:130-135, 144-149, 156-167: the api router logs an outcome;
\* alogged keeps it when log_onboarding_event stored the event
Onboarding(h, outcome) ==
    IF areq[h].layer = "api"
    THEN /\ log_onboarding_event(AddRun)
         /\ alogged' = [alogged EXCEPT ![h] =
                           IF tlast'.ret = "True" THEN Append(@, outcome) ELSE @]
    ELSE UNCHANGED <<telVars, alogged>>

Respond(h, code) ==
    /\ apc' = [apc EXCEPT ![h] = "done"]
    /\ aresp' = [aresp EXCEPT ![h] = code]

\* the handler builds its Device and goes on to the registry's add_device
Build(h) ==
    /\ apc' = [apc EXCEPT ![h] = "persist"]
    /\ adev' = [adev EXCEPT ![h] = Device(areq[h], aclk + 1)]
    /\ aclk' = aclk + 1
    /\ UNCHANGED <<aresp, alogged, telVars>>

\* a POST /add arrives; a body that is no DeviceAdd is answered with 422
AddStart(h) ==
    /\ apc[h] \in {"idle", "done"}
    /\ anum < MaxAddOps
    /\ anum' = anum + 1
    /\ \E req \in AddRequests :
         /\ areq' = [areq EXCEPT ![h] = req]
         /\ apc' = [apc EXCEPT ![h] = IF DeviceAdd(req) THEN "check" ELSE "done"]
         /\ aresp' = [aresp EXCEPT ![h] = IF DeviceAdd(req) THEN "none" ELSE "422"]
    /\ adev' = [adev EXCEPT ![h] = NoDevice]
    /\ alogged' = [alogged EXCEPT ![h] = <<>>]
    /\ UNCHANGED <<areg, aclk, telVars>>

\* api/devices.py:84-90, devices.py:53-59: existing_device = await get_device(id)
AddCheck(h) ==
    /\ apc[h] = "check"
    /\ IF Find(areg, DeviceId(areq[h])) > 0
       THEN /\ Respond(h, "409")
            /\ Onboarding(h, "failed")
            /\ UNCHANGED <<adev, aclk>>
       ELSE IF areq[h].layer = "api" /\ areq[h].type = "wifi"
       THEN /\ apc' = [apc EXCEPT ![h] = "ipcheck"]
            /\ UNCHANGED <<adev, aclk, aresp, alogged, telVars>>
       ELSE Build(h)
    /\ UNCHANGED <<areg, anum, areq>>

\* api/devices.py:92-100: all_devices = await load_device_registry()
AddIpCheck(h) ==
    /\ apc[h] = "ipcheck"
    /\ IF \E i \in 1..Len(areg) : areg[i].ip = areq[h].ip /\ areg[i].type = "wifi"
       THEN /\ Respond(h, "409")
            /\ Onboarding(h, "failed")
            /\ UNCHANGED <<adev, aclk>>
       ELSE Build(h)
    /\ UNCHANGED <<areg, anum, areq>>

\* api/devices.py:123-154, devices.py:70-84: success = await add_device(...);
\* registry.py:174-178 returns False when the registry could not be saved, and
\* the api router then logs the failure before it raises its HTTPException
AddPersist(h) ==
    /\ apc[h] = "persist"
    /\ \E saved \in BOOLEAN :
         IF saved
         THEN /\ areg' = add_device_to_registry(areg, adev[h], aclk + 1)
              /\ aclk' = aclk + 1
              /\ Respond(h, "200")
              /\ Onboarding(h, "added")
         ELSE /\ apc' = [apc EXCEPT ![h] = "raised"]
              /\ Onboarding(h, "failed")
              /\ UNCHANGED <<areg, aclk, aresp>>
    /\ UNCHANGED <<anum, areq, adev>>

\* api/devices.py:156-167, devices.py:86-87: `except HTTPException` catches the
\* exception of the failed save, logs the failure and raises it again
AddRaised(h) ==
    /\ apc[h] = "raised"
    /\ Respond(h, "500")
    /\ Onboarding(h, "failed")
    /\ UNCHANGED <<areg, aclk, anum, areq, adev>>

\* registry.py:230-256 on the records with addresses
StatusUpdate ==
    /\ anum < MaxAddOps
    /\ anum' = anum + 1
    /\ \E id \in {"lamp"}, st \in {"on"} :
         LET i == Find(areg, id) IN
         /\ areg' = IF i = 0 THEN areg
                    ELSE [areg EXCEPT ![i] = [@ EXCEPT !.status = st,
                                                       !.last_seen = aclk + 1]]
         /\ aclk' = IF i = 0 THEN aclk ELSE aclk + 1
    /\ UNCHANGED <<apc, areq, adev, aresp, alogged, telVars>>

\* registry.py:180-208 on the records with addresses
Removal ==
    /\ anum < MaxAddOps
    /\ anum' = anum + 1
    /\ \E id \in {"lamp"} : areg' = Without(areg, id)
    /\ UNCHANGED <<aclk, apc, areq, adev, aresp, alogged, telVars>>

InitAdd ==
    /\ areg = SampleDevices(1)
    /\ aclk = 1
    /\ anum = 0
    /\ apc = [h \in Handlers |-> "idle"]
    /\ areq = [h \in Handlers |-> NoRequest]
    /\ adev = [h \in Handlers |-> NoDevice]
    /\ aresp = [h \in Handlers |-> "none"]
    /\ alogged = [h \in Handlers |-> <<>>]

NextAdd ==
    \/ \E h \in Handlers : AddStart(h) /\ UNCHANGED notAddVars
    \/ \E h \in Handlers : AddCheck(h) /\ UNCHANGED notAddVars
    \/ \E h \in Handlers : AddIpCheck(h) /\ UNCHANGED notAddVars
    \/ \E h \in Handlers : AddPersist(h) /\ UNCHANGED notAddVars
    \/ \E h \in Handlers : AddRaised(h) /\ UNCHANGED notAddVars
    \/ StatusUpdate /\ UNCHANGED notAddVars
    \/ Removal /\ UNCHANGED notAddVars

(* ---------------------- _detect_shelly_generation --------------------- *)
\* what may sit at a relay's address: a Gen1 or a Gen2 relay, a device that
\* answers HTTP with other JSON, a device that does not answer
Relays == {"gen1", "gen2", "foreign", "silent"}

RPC_STATUS == "/rpc/Switch.GetStatus?id=0"

RELAY_STATUS == "/relay/0"

RPC_SET == "/rpc/Switch.Set?id=0&on="

RELAY_TURN == "/relay/0?turn="

\* device_protocols.py:26-30: status 200, a dict with "id" equal to 0
MatchesGen2(dev, ok) == dev = "gen2" /\ ok

\* device_protocols.py:37-41: status 200, a dict with "ison"
MatchesGen1(dev, ok) == dev = "gen1" /\ ok

\* the detection as it would be with the Gen1 endpoint probed first
DetectGen1First(dev, ok2, ok1) ==
    IF MatchesGen1(dev, ok1) THEN [probes |-> <<RELAY_STATUS>>, gen |-> "gen1"]
    ELSE [probes |-> <<RELAY_STATUS, RPC_STATUS>>,
          gen |-> IF MatchesGen2(dev, ok2) THEN "gen2" ELSE "gen1"]

\* device_protocols.py:12-51: the requests sent and the generation returned;
\* ok2 and ok1 say whether the probe was answered in time
detect_shelly_generation(dev, ok2, ok1) ==
    IF MatchesGen2(dev, ok2) THEN [probes |-> <<RPC_STATUS>>, gen |-> "gen2"]
    ELSE [probes |-> <<RPC_STATUS, RELAY_STATUS>>, gen |-> "gen1"]

NoCheck == [probes |-> <<>>, gen |-> "none", url |-> "none"]

NoCall ==
    [fn |-> "none", dev |-> "none", ok2 |-> FALSE, ok1 |-> FALSE, probes |-> <<>>,
     gen |-> "none", url |-> "none", verify |-> NoCheck]

\* device_protocols.py:217-247: the detection and the status request
StatusRequest(dev, ok2, ok1) ==
    LET d == detect_shelly_generation(dev, ok2, ok1)
    IN [probes |-> d.probes, gen |-> d.gen,
        url |-> IF d.gen = "gen2" THEN RPC_STATUS ELSE RELAY_STATUS]

Called(call) ==
    /\ snum < MaxShellyCalls
    /\ snum' = snum + 1
    /\ sprior' = scall
    /\ scall' = call
    /\ UNCHANGED srelay

\* device_protocols.py:53-141: a payload without "on" is refused before the
\* detection; a Gen2 command that was answered is verified by get_shelly_status,
\* which detects the generation again
send_shelly_command ==
    \E on \in {"on", "off", MISSING}, ok2 \in BOOLEAN, ok1 \in BOOLEAN,
       answered \in BOOLEAN, vok2 \in BOOLEAN, vok1 \in BOOLEAN :
       LET d == detect_shelly_generation(srelay, ok2, ok1)
       IN Called(IF on = MISSING
                 THEN [NoCall EXCEPT !.fn = "send", !.dev = srelay]
                 ELSE [fn |-> "send", dev |-> srelay, ok2 |-> ok2, ok1 |-> ok1,
                       probes |-> d.probes, gen |-> d.gen,
                       url |-> IF d.gen = "gen2" THEN RPC_SET ELSE RELAY_TURN,
                       verify |-> IF d.gen = "gen2" /\ answered
                                  THEN StatusRequest(srelay, vok2, vok1)
                                  ELSE NoCheck])

\* device_protocols.py:206-260
get_shelly_status ==
    \E ok2 \in BOOLEAN, ok1 \in BOOLEAN :
       LET s == StatusRequest(srelay, ok2, ok1)
       IN Called([fn |-> "status", dev |-> srelay, ok2 |-> ok2, ok1 |-> ok1,
                  probes |-> s.probes, gen |-> s.gen, url |-> s.url,
                  verify |-> NoCheck])

\* between two calls the device at the address is replaced by another one
Replaced ==
    /\ scall.dev \in {"none", srelay}
    /\ \E dev \in Relays \ {srelay} : srelay' = dev
    /\ UNCHANGED <<snum, scall, sprior>>

InitShelly ==
    /\ srelay = "gen1"
    /\ snum = 0
    /\ scall = NoCall
    /\ sprior = NoCall

NextShelly ==
    \/ send_shelly_command /\ UNCHANGED notShellyVars
    \/ get_shelly_status /\ UNCHANGED notShellyVars
    \/ Replaced /\ UNCHANGED notShellyVars

(* ------------------- subnet scan: the addresses to test --------------- *)
\* the /24 networks a host may be in, by their first three octets
LocalNets ==
    {<<10, 0, 0>>, <<10, 0, 1>>, <<192, 168, 1>>, <<192, 168, 0>>, <<192, 168, 50>>,
     <<172, 16, 0>>}

\* discover.py:744-749: the networks used when the local address is not found
FALLBACK_NETWORKS == << <<10, 0, 0>>, <<192, 168, 1>>, <<192, 168, 0>> >>

\* discover.py:849: [:100]
TEST_IPS_CAP == 100

\* Python's range(a, b)
Range(a, b) == [i \in 1..(b - a) |-> a + i - 1]

\* discover.py:833-854: the last octets generated for one network, in order:
\* three priority ranges for 10.0.0.x, 1..49 for 192.168.x.x, none otherwise
HostsOf(net) ==
    IF net = <<10, 0, 0>> THEN Range(80, 90) \o Range(1, 20) \o Range(50, 70)
    ELSE IF net[1] = 192 /\ net[2] = 168 THEN Range(1, 50)
    ELSE <<>>

\* list(dict.fromkeys(l)): the first occurrence of each element, in order
FromKeys(l) ==
    LET first == {i \in 1..Len(l) : \A j \in 1..(i - 1) : l[j] # l[i]}
    IN [k \in 1..Cardinality(first) |->
          l[CHOOSE i \in first : Cardinality({j \in first : j < i}) = k - 1]]

\* Limited as it would be without the slice
Unlimited(l) == l

\* l[:100]
Limited(l) == IF Len(l) <= TEST_IPS_CAP THEN l ELSE SubSeq(l, 1, TEST_IPS_CAP)

\* discover.py:726-752, 826-828: networks = get_local_networks()
get_local_networks ==
    /\ ipc = "idle"
    /\ \E nets \in {<<n>> : n \in LocalNets} \cup {FALLBACK_NETWORKS} :
         /\ inets' = nets
         /\ ihosts' = HostsOf(Head(nets))
    /\ igen' = <<>>
    /\ ipc' = "generate"
    /\ UNCHANGED itest

\* discover.py:831-854: one pass of the inner loop, test_ips.append(...); after
\* a network's last address the next network is taken
AppendTestIp ==
    /\ ipc = "generate"
    /\ inets # <<>>
    /\ IF ihosts # <<>>
       THEN /\ igen' = Append(igen, <<Head(inets), Head(ihosts)>>)
            /\ ihosts' = Tail(ihosts)
            /\ UNCHANGED inets
       ELSE /\ inets' = Tail(inets)
            /\ ihosts' = IF Tail(inets) = <<>> THEN <<>> ELSE HostsOf(Head(Tail(inets)))
            /\ UNCHANGED igen
    /\ UNCHANGED <<ipc, itest>>

\* discover.py:856: test_ips = list(dict.fromkeys(test_ips))[:100]
LimitTestIps ==
    /\ ipc = "generate"
    /\ inets = <<>>
    /\ itest' = Limited(FromKeys(igen))
    /\ ipc' = "listed"
    /\ UNCHANGED <<inets, ihosts, igen>>

\* the scan is over; the next one starts from nothing
ScanOver ==
    /\ ipc = "listed"
    /\ ipc' = "idle"
    /\ igen' = <<>>
    /\ itest' = <<>>
    /\ UNCHANGED <<inets, ihosts>>

InitTestIps ==
    /\ ipc = "idle"
    /\ inets = <<>>
    /\ ihosts = <<>>
    /\ igen = <<>>
    /\ itest = <<>>

NextTestIps ==
    \/ get_local_networks /\ UNCHANGED notTestIpVars
    \/ AppendTestIp /\ UNCHANGED notTestIpVars
    \/ LimitTestIps /\ UNCHANGED notTestIpVars
    \/ ScanOver /\ UNCHANGED notTestIpVars

(* ------------------------ discover_shelly_coiot ----------------------- *)
\* what a datagram on the multicast group may hold: a Shelly announcement with a
\* JSON body, one with a JSON body whose fields are of the wrong type, one with
\* text only, another vendor's datagram, bytes that decode to nothing
Payloads == {"shelly_json", "shelly_badjson", "shelly_text", "other", "garbage"}

NoInfo == [ip |-> NoIp, via |-> "none", n |-> 0]

\* discover.py:117-175: None without one of the indicators 'shelly',
\* 'shellyplus', 'coiot'; otherwise the JSON fields, the text patterns or, when
\* both give nothing, the basic entry; n names the datagram
parse_shelly_coiot_packet(payload, source_ip, n) ==
    IF payload \in {"other", "garbage"} THEN NoInfo
    ELSE [ip |-> source_ip,
          via |-> CASE payload = "shelly_json" -> "json"
                    [] payload = "shelly_badjson" -> "basic"
                    [] OTHER -> "text",
          n |-> n]

\* Noted as it would be without the test on discovered_by_ip
NotedAlways(found, info) ==
    IF info # NoInfo THEN Append(found, info) ELSE found

\* discover.py:86-89: discovered_devices after a datagram
Noted(found, info) ==
    IF info # NoInfo /\ \A i \in 1..Len(found) : found[i].ip # info.ip
    THEN Append(found, info)
    ELSE found

\* discover.py:40-64: the socket is set up; when that fails [] is returned
ListenStart ==
    /\ lpc = "idle"
    /\ \E ok \in BOOLEAN : lpc' = IF ok THEN "listening" ELSE "returned"
    /\ lfound' = <<>>
    /\ lrecv' = <<>>
    /\ lidle' = 0

\* discover.py:78-89: a datagram arrives within 0.1 s
Datagram ==
    /\ lpc = "listening"
    /\ Len(lrecv) < MaxDatagrams
    /\ \E ip \in IPs, payload \in Payloads :
         /\ lrecv' = Append(lrecv, [ip |-> ip, payload |-> payload])
         /\ lfound' = Noted(lfound, parse_shelly_coiot_packet(payload, ip, Len(lrecv) + 1))
    /\ UNCHANGED <<lpc, lidle>>

\* discover.py:91-96: asyncio.TimeoutError or an error of recvfrom: continue
NoDatagram ==
    /\ lpc = "listening"
    /\ lidle < MaxDatagrams
    /\ lidle' = lidle + 1
    /\ UNCHANGED <<lpc, lfound, lrecv>>

\* discover.py:71, 102-114: the window is over, the socket is closed, the list
\* is returned
WindowOver ==
    /\ lpc = "listening"
    /\ lpc' = "returned"
    /\ UNCHANGED <<lfound, lrecv, lidle>>

InitCoiot ==
    /\ lpc = "idle"
    /\ lfound = <<>>
    /\ lrecv = <<>>
    /\ lidle = 0

NextCoiot ==
    \/ ListenStart /\ UNCHANGED notCoiotVars
    \/ Datagram /\ UNCHANGED notCoiotVars
    \/ NoDatagram /\ UNCHANGED notCoiotVars
    \/ WindowOver /\ UNCHANGED notCoiotVars

(* ------------------- get_*_history: the recent events ----------------- *)
\* Python's history[-limit:] for limit >= 0; -0 is 0, so history[-0:] is the
\* whole list
LastSlice(history, limit) ==
    IF limit = 0 \/ limit >= Len(history) THEN history
    ELSE SubSeq(history, Len(history) - limit + 1, Len(history))

\* list(reversed(l))
Reversed(l) == [i \in 1..Len(l) |-> l[Len(l) - i + 1]]

\* the log calls before a history is asked for
RecentRun == [discovery |-> MaxLogged, onboarding |-> MaxLogged]

NoRecent == [kind |-> "none", limit |-> 0, history |-> <<>>, out |-> <<>>]

\* telemetry.py:193-233: get_discovery_history(limit), get_onboarding_history(limit)
get_recent_history ==
    /\ tapp = "up"
    /\ \E kind \in Kinds, limit \in 0..MaxLimit :
         LET r == Read(tprim, tbak, "none")
             history == IF kind = "discovery" THEN r.data.disc ELSE r.data.onb
         IN /\ tprim' = r.prim
            /\ tbak' = r.bak
            /\ tcommitted' = IF r.restored THEN r.data ELSE tcommitted
            /\ tlast' = Last("read", IF r.raised THEN "[]" ELSE "history", r.restored)
            /\ rcall' = [kind |-> kind, limit |-> limit, history |-> history,
                         out |-> IF r.raised THEN <<>>
                                 ELSE Reversed(LastSlice(history, limit))]
    /\ UNCHANGED <<tnum, tfaults, tdamage, tapp>>

InitRecent == rcall = NoRecent

NextRecent ==
    \/ log_discovery_event(RecentRun) /\ UNCHANGED notTelVars
    \/ log_onboarding_event(RecentRun) /\ UNCHANGED notTelVars
    \/ get_recent_history /\ UNCHANGED notRecentVars

(* --------------- log calls of two tasks on one event loop ------------- *)
Tasks == {1, 2}

\* Suspends as it would be if reading the file gave control to the event loop
SuspendsAtRead == TRUE

\* telemetry.py:131, 171: `await self._read_telemetry_data()` runs a coroutine
\* whose body (45-84) has no await of its own, so control stays with the caller
Suspends == FALSE

NoLogCall == [kind |-> "none", n |-> 0, data |-> EmptyDoc]

ConcRun == [discovery |-> MaxConcLogs, onboarding |-> MaxConcLogs]

\* telemetry.py:141-145, 181-185: append, slice, _write_telemetry_data
LogWritten(t, call) ==
    LET w == Write(tprim, tbak, WithEvent(call.data, call.kind, call.n), "none")
    IN /\ tprim' = w.prim
       /\ tbak' = w.bak
       /\ tcommitted' = w.prim
       /\ kcall' = [kcall EXCEPT ![t] = NoLogCall]

\* the event loop runs task t until it next gives up control: a task that is
\* not in a log call enters log_discovery_event or log_onboarding_event
\* (telemetry.py:115-191), a task that was suspended in one goes on
LogTask(t) ==
    /\ tapp = "up"
    /\ IF kcall[t].kind = "none"
       THEN \E kind \in Kinds :
              LET r == Read(tprim, tbak, "none")
                  call == [kind |-> kind, n |-> tnum[kind] + 1, data |-> r.data]
              IN /\ tnum[kind] < ConcRun[kind]
                 /\ tnum' = [tnum EXCEPT ![kind] = @ + 1]
                 /\ kran' = Append(kran, [task |-> t, kind |-> kind])
                 /\ tlast' = Last(kind, "True", r.restored)
                 /\ IF Suspends
                    THEN /\ kcall' = [kcall EXCEPT ![t] = call]
                         /\ UNCHANGED <<tprim, tbak, tcommitted>>
                    ELSE LogWritten(t, call)
       ELSE /\ LogWritten(t, kcall[t])
            /\ UNCHANGED <<tnum, kran, tlast>>
    /\ UNCHANGED <<tfaults, tdamage, tapp>>

InitConcLog ==
    /\ kcall = [t \in Tasks |-> NoLogCall]
    /\ kran = <<>>

NextConcLog == \E t \in Tasks : LogTask(t) /\ UNCHANGED notConcLogVars

(* --------------------------- specifications -------------------------- *)
InitLocal ==
    /\ tmp = NoFile
    /\ backup = NoFile
    /\ pc = [w \in Workers |-> "idle"]
    /\ op = [w \in Workers |-> "none"]
    /\ arg = [w \in Workers |-> NoArg]
    /\ devices = [w \in Workers |-> <<>>]
    /\ fd = [w \in Workers |-> "none"]
    /\ off = [w \in Workers |-> 0]
    /\ ret = [w \in Workers |-> "none"]
    /\ out = [w \in Workers |-> <<>>]
    /\ now = 0
    /\ before = [w \in Workers |-> NoFile]
    /\ pre = [w \in Workers |-> NoPre]
    /\ committed = [any |-> FALSE, list |-> <<>>]
    /\ raced = FALSE
    /\ seen = [w \in Workers |-> 0]
    /\ prev = [w \in Workers |-> NoPrev]
    /\ overlapped = [w \in Workers |-> FALSE]
    /\ crashAt = [w \in Workers |-> "none"]
    /\ expect = [i \in Ids |-> NoExpect]
    /\ InitDisc
    /\ InitMerge
    /\ InitWifi
    /\ InitProbe
    /\ InitZwave
    /\ InitCtl
    /\ InitTel
    /\ InitAdd
    /\ InitShelly
    /\ InitTestIps
    /\ InitCoiot
    /\ InitRecent
    /\ InitConcLog

\* the registry file a start may find: none (first run), an empty file, JSON that
\* is no list, text that is no JSON, a text cut short, a list saved earlier
InitFiles ==
    {NoFile, File(<<>>), File(<<OBJ>>), File(<<JUNK>>), File(<<LB>>)}
        \cup {File(Ser(l)) : l \in SaveLists}

\* two request handlers at once, no I/O errors, first run
Init ==
    /\ InitLocal
    /\ live = NoFile
    /\ faultsLeft = 0
    /\ crashesLeft = 0
    /\ SoundTelemetry

\* the calls two overlapping request handlers make
ConcMenu ==
    [ids |-> {"living_room_light", "kitchen_switch"}, names |-> {"Lamp"},
     statuses |-> {"on"}, lists |-> {<<>>}, hist |-> FALSE, maxOps |-> MaxConcOps]

\* the calls of one request handler
SeqMenu ==
    [ids |-> {"kitchen_switch", "plug1"}, names |-> Names \cup {MISSING},
     statuses |-> Statuses, lists |-> SaveLists, hist |-> TRUE, maxOps |-> MaxOps]

Step(w, M) ==
    \/ Reg(add_device(w, M))
    \/ Reg(remove_device(w, M))
    \/ Reg(update_device_status(w, M))
    \/ Reg(get_device(w, M))
    \/ Reg(load_registry(w, M))
    \/ Reg(save_registry(w, M))
    \/ Reg(SaveOpen(w))
    \/ Reg(SaveWrite(w))
    \/ Reg(SaveRename(w))
    \/ Reg(SaveFail(w))
    \/ Reg(Finish(w, M))

ConcStep(w, M) ==
    \/ Reg(add_device(w, M))
    \/ Reg(remove_device(w, M))
    \/ Reg(update_device_status(w, M))
    \/ Reg(load_registry(w, M))
    \/ Reg(SaveOpen(w))
    \/ Reg(SaveWrite(w))
    \/ Reg(SaveRename(w))
    \/ Reg(SaveFail(w))
    \/ Reg(Finish(w, M))

Next == \E w \in Workers : ConcStep(w, ConcMenu)

Spec == Init /\ [][Next]_vars

\* one request handler at a time, with I/O errors and crashes
InitSeq ==
    /\ InitLocal
    /\ live \in InitFiles
    /\ faultsLeft = MaxFaults
    /\ crashesLeft = MaxCrashes
    /\ SoundTelemetry

NextSeq ==
    \/ Step(1, SeqMenu)
    \/ Reg(IoError(1))
    \/ Reg(Crash)

SpecSeq == InitSeq /\ [][NextSeq]_vars

\* one discovery run; the calls end when the environment lets them
SpecDisc == Init /\ [][NextDisc]_vars

\* one discovery run in which the Govee adapter may fall back to its network scan
NextDiscBlocking ==
    \/ NextDisc
    \/ GoveeScanBlocksLoop /\ UNCHANGED notDiscVars

SpecDiscBlocking == Init /\ [][NextDiscBlocking]_vars

\* time passes, the event loop fires the timers that are due and resumes the call
\* when its tasks have ended; nothing is assumed of the adapters
SpecDiscFair ==
    /\ SpecDisc
    /\ WF_vars(Tick /\ UNCHANGED notDiscVars)
    /\ WF_vars(\E f \in Families : WaitForTimeout(f) /\ UNCHANGED notDiscVars)
    /\ WF_vars(GatherReturns /\ UNCHANGED notDiscVars)

\* the merge of one run of discover_wifi_devices
SpecMerge == Init /\ [][NextMerge]_vars

\* one discovery run with the Wi-Fi family in detail
SpecWifi == Init /\ [][NextWifi]_vars

\* one subnet scan
SpecProbe == Init /\ [][NextProbe]_vars

\* one Z-Wave discovery over any registry file a start may find
InitZw ==
    /\ InitLocal
    /\ live \in InitFiles
    /\ faultsLeft = 0
    /\ crashesLeft = 0
    /\ SoundTelemetry

SpecZwave == InitZw /\ [][NextZwave]_vars

\* one control request over a registry with or without the device
InitControl ==
    /\ InitLocal
    /\ live \in {NoFile} \cup {File(Ser(l)) : l \in CtlLists}
    /\ faultsLeft = 0
    /\ crashesLeft = 0
    /\ SoundTelemetry

SpecControl == InitControl /\ [][NextCtl]_vars

\* telemetry with sound files: long runs of log calls
SpecTelLog == Init /\ [][NextTelLog]_vars

\* telemetry with damaged files and failing writes
InitTelFaulty ==
    /\ InitLocal
    /\ live = NoFile
    /\ faultsLeft = 0
    /\ crashesLeft = 0
    /\ tfaults = MaxTelFaults
    /\ tdamage = MaxDamage

SpecTel == InitTelFaulty /\ [][NextTel]_vars

\* add requests of both routers, two handlers at once
SpecAdd == Init /\ [][NextAdd]_vars

\* calls on one Wi-Fi relay address whose device is replaced between calls
SpecShelly == Init /\ [][NextShelly]_vars

\* the address list of the subnet scan for every local network and the fallback
SpecTestIps == Init /\ [][NextTestIps]_vars

\* one listen window of the CoIoT listener
SpecCoiot == Init /\ [][NextCoiot]_vars

\* histories of up to MaxLogged events read with limits from 0 to MaxLimit
SpecRecent == Init /\ [][NextRecent]_vars

\* two tasks of one event loop that log events of both kinds
SpecConcLog == Init /\ [][NextConcLog]_vars

(* ------------------------------ properties --------------------------- *)
\* what load() would return now, timestamps of the seed aside
View ==
    IF ~live.ex THEN Seed(None)
    ELSE IF ParseKind(live.data) = "list" THEN ParseList(live.data)
    ELSE <<>>

NoTrouble == faultsLeft = MaxFaults /\ crashesLeft = MaxCrashes

\* C1: during a save, after a failed save and after a crash before the rename, the
\* live file is still the file as it was when the save began; after the rename it
\* is the complete text of the saved list; a failed save returns False.
C1_AtomicSave ==
    \A w \in Workers :
       /\ pc[w] \in SavePcs => live = pre[w].file
       /\ crashAt[w] \in SavePcs => live = pre[w].file
       /\ (pc[w] = "done" /\ pre[w].saving /\ ret[w] # "True") =>
             (ret[w] = "False" /\ live = pre[w].file)
       /\ (pc[w] = "done" /\ pre[w].saving /\ ret[w] = "True") =>
             live = File(Ser(devices[w]))

\* C1 witness: the process died after the temporary file was written in full and
\* before the rename, over an earlier committed file
C1_Witness ==
    /\ crashAt[1] = "save_rename"
    /\ tmp = File(Ser(devices[1]))
    /\ live.ex
    /\ live # tmp

\* C2: add(id, n1) directly followed by add(id, n2), no I/O error: both return
\* True, the registry holds exactly one record with that id, named n2, and at most
\* one record more than the first call found.
C2_IdempotentUpsert ==
    (/\ pc[1] = "done" /\ op[1] = "add" /\ HasRequired(arg[1])
     /\ prev[1].op = "add" /\ prev[1].id = arg[1].id /\ prev[1].name # MISSING
     /\ NoTrouble)
    => /\ ret[1] = "True"
       /\ prev[1].ret = "True"
       /\ ParseKind(live.data) = "list"
       /\ CountId(View, arg[1].id) = 1
       /\ View[Find(View, arg[1].id)].name = arg[1].name
       /\ Len(View) <= prev[1].seen + 1

\* C2 witness: the second add of an id that the first add created, another name
C2_Witness ==
    /\ pc[1] = "done" /\ op[1] = "add" /\ ret[1] = "True"
    /\ prev[1].op = "add" /\ prev[1].id = "plug1" /\ arg[1].id = "plug1"
    /\ prev[1].name = "Plug" /\ arg[1].name = "Lamp"
    /\ prev[1].ret = "True"
    /\ NoTrouble
    /\ Len(View) = prev[1].seen + 1

C4_CorruptionBackedUp ==
    \A w \in Workers :
       (/\ pc[w] = "done" /\ op[w] = "load" /\ NoTrouble
        /\ before[w].ex /\ ParseKind(before[w].data) \in {"bad", "empty", "notlist"})
       => (out[w] = <<>> /\ backup = before[w] /\ live # before[w])

\* C5: load() with no registry file returns the seed records, and when it has
\* returned the file exists and holds exactly those records.
C5_SeedPersisted ==
    \A w \in Workers :
       (pc[w] = "done" /\ op[w] = "load" /\ NoTrouble /\ ~before[w].ex)
       => (out[w] = Seed(now) /\ live = File(Ser(out[w])))

\* C6: once a save has returned True, a load() that follows with no other
\* committed write in between returns exactly the saved list.
C6_ReadAfterWrite ==
    \A w \in Workers :
       (pc[w] = "done" /\ op[w] = "load" /\ committed.any) => out[w] = committed.list

\* C7: the live file always holds the complete text of the list of the save whose
\* rename came last.
C7_WholeFileOfOneSave ==
    (live.ex /\ committed.any) => live.data = Ser(committed.list)

\* the effect promised for id shows in the registry
Visible(id) ==
    LET e == expect[id]
        i == Find(View, id)
    IN e.known =>
          IF e.present
          THEN /\ i > 0
               /\ e.name # "" => View[i].name = e.name
               /\ e.status # "" => View[i].status = e.status
          ELSE i = 0

\* C8 (as claimed): two overlapping calls on different ids that both returned True
\* have both their effects in the registry.
C8_BothEffects ==
    (/\ pc[1] = "done" /\ pc[2] = "done"
     /\ ret[1] = "True" /\ ret[2] = "True"
     /\ overlapped[1] /\ overlapped[2]
     /\ arg[1].id # arg[2].id)
    => (Visible(arg[1].id) /\ Visible(arg[2].id))

\* C8 (amended): as long as no read-modify-write call began during another one's
\* save, the effect of every call that returned True is in the registry until a
\* later call on the same id changes it.
C8_EffectsStayWithoutOverlap ==
    ~raced => \A id \in Ids : Visible(id)

\* C8 witness: a call on another id has committed after one that returned True,
\* with no overlap, and both effects are promised
C8_Witness ==
    /\ ~raced
    /\ expect["living_room_light"].known
    /\ expect["kitchen_switch"].known
    /\ ~expect["kitchen_switch"].present
    /\ pc[2] = "done" /\ ret[2] = "True"

MaxOf(S) == CHOOSE m \in S : \A x \in S : x <= m

\* the family f hung and every other family's adapter returned its list
OnlyHung(f) ==
    /\ fam[f] = "timedout"
    /\ \A g \in Families \ {f} : fam[g] = "done"

ReturnedByLastFamily ==
    /\ dpc = "gather" => clock <= WIFI_DISCOVERY_TIMEOUT
    /\ \A f \in Families :
          (dpc = "returned" /\ OnlyHung(f)) =>
             /\ returnedAt = MaxOf({Deadline(f)} \cup {fdone[g] : g \in Families \ {f}})
             /\ returnedAt <= WIFI_DISCOVERY_TIMEOUT
             /\ result[f] = <<>>
             /\ \A g \in Families \ {f} : result[g] = fres[g]

C10_FailuresIsolated ==
    dpc = "returned" =>
       /\ DOMAIN result = Families
       /\ \A f \in Families :
             /\ fam[f] \in {"raised", "timedout"} => result[f] = <<>>
             /\ fam[f] = "done" => result[f] = fres[f]

\* C10 witness: one family raised, one timed out, the third returned a device
C10_Witness ==
    /\ dpc = "returned"
    /\ fam["zwave"] = "raised"
    /\ fam["govee"] = "timedout"
    /\ fam["wifi"] = "done"
    /\ result["wifi"] # <<>>

\* rank of a sub-strategy: 1 multicast, 2 service discovery, 3 active probe
Rank(via) == CHOOSE i \in 1..3 : Sources[i] = via

\* the sub-strategies whose list holds the address
Reporting(ip) ==
    {i \in 1..3 : \E k \in 1..Len(mgIn[Sources[i]]) : mgIn[Sources[i]][k].ip = ip}

\* C11: the merged Wi-Fi list holds at most one candidate per IP address, one for
\* every address that was reported, and it comes from the highest-priority
\* sub-strategy that reported the address.
C11_OnePerIp ==
    mgpc = "merged" =>
       \A ip \in IPs :
          LET at == {k \in 1..Len(mgOut) : mgOut[k].ip = ip}
          IN /\ Cardinality(at) <= 1
             /\ (Reporting(ip) # {}) =>
                   /\ Cardinality(at) = 1
                   /\ \A k \in at : \A i \in Reporting(ip) : Rank(mgOut[k].via) <= i

\* C11 witness: all three sub-strategies reported 10.0.0.86 and the merge kept the
\* multicast candidate alone
C11_Witness ==
    /\ mgpc = "merged"
    /\ Reporting("10.0.0.86") = {1, 2, 3}
    /\ mgOut = <<Cand("10.0.0.86", "coiot")>>

\* the lists the sub-strategies of this run returned, [] for one that did not
SubResults == [v \in Subs |-> IF sub[v] = "done" THEN subOut[v] ELSE <<>>]

\* C12: whenever discover_all returns with the Wi-Fi family ended normally, the
\* three sub-strategies were run and the wifi list is the merge of their outputs.
C12_WifiIsMergeOfThree ==
    (dpc = "returned" /\ fam["wifi"] = "done") =>
       /\ ranSubs = Subs
       /\ result["wifi"] = MergeWifi(SubResults)

\* C13: when the sub-strategies were run and the Wi-Fi family ended normally,
\* every address reported by a sub-strategy that finished is in the wifi list,
\* whatever became of the other sub-strategies.
C13_FinishedSubsSurvive ==
    (dpc = "returned" /\ fam["wifi"] = "done" /\ ranSubs # {}) =>
       \A v \in Subs :
          sub[v] = "done" =>
             \A k \in 1..Len(subOut[v]) :
                \E j \in 1..Len(result["wifi"]) : result["wifi"][j].ip = subOut[v][k].ip

MaxDeadline == MaxOf({Deadline(f) : f \in Families})

\* C15: whatever the adapters do, discover_all is not still waiting after the
\* largest family deadline, and it has returned no later than that.
C15_BoundedByLargestDeadline ==
    /\ dpc = "gather" => clock <= MaxDeadline
    /\ dpc = "returned" => returnedAt <= MaxDeadline

\* C16: at every moment of a subnet scan at most three probes have a request in
\* flight, and the semaphore counts exactly the free places.
C16_AtMostThreeInFlight ==
    /\ Cardinality(InFlight) <= PROBE_LIMIT
    /\ sem = PROBE_LIMIT - Cardinality(InFlight)

\* C16 witness: three probes in flight, one on its second request, while another
\* address is waiting and one probe has finished
C16_Witness ==
    /\ Cardinality(InFlight) = PROBE_LIMIT
    /\ \E p \in Candidates : probe[p] = "waiting"
    /\ \E p \in Candidates : probe[p] = "gen1"
    /\ \E p \in Candidates : probe[p] = "done"

\* C17: every returned Z-Wave candidate is a node the controller reported in this
\* run; without the library or the server the result is empty; and the mock
\* fallback is called only without the library or the server.
C17_FallbackOnlyWhenUnreachable ==
    /\ zpc = "returned" => \A n \in zres : zenv.lib /\ zenv.reach /\ znode[n] = "ready"
    /\ (zpc = "returned" /\ ~(zenv.lib /\ zenv.reach)) => zres = {}
    /\ mockRan => ~(zenv.lib /\ zenv.reach)

\* C18: once a discovery run has begun, the registry file and its backup are what
\* they were when it began.
C18_RegistryUntouched ==
    zpc # "idle" => (live = zBefore.live /\ backup = zBefore.backup)

\* C19: when the relay acknowledged the command request and a status read made
\* after it reported the opposite state, the adapter returns False; and it returns
\* True only when a status read made after the command reported the requested
\* state.
C19_VerifiedByStatusRead ==
    cold.type = "wifi" =>
       /\ (cret # "none" /\ cacked /\ cobs \notin {"none", creq.want}) => cret = "False"
       /\ cret = "True" => cobs = creq.want

\* the registry record of the controlled device
Persisted ==
    IF live.ex /\ IsListText(live.data) /\ Find(ParseList(live.data), creq.id) > 0
    THEN ParseList(live.data)[Find(ParseList(live.data), creq.id)]
    ELSE NoRec

\* C20: after a control request answered with success, the registry record of the
\* device has the requested status and a last_seen later than before, and the
\* record read back has them too.
C20_RegistryShowsCommand ==
    cresp = "success" =>
       /\ cret = "True"
       /\ Persisted.status = NewStatus(creq.want)
       /\ Persisted.last_seen > cold.last_seen
       /\ cgot = Persisted

\* C21: a status call for a type without an adapter returns absent, a control
\* request for a record of such a type ends with the unsupported-type error;
\* neither sends a request or waits for a timeout, and the steps of both leave
\* the registry file and its backup as they were.
C21_UnsupportedIsExplicit ==
    /\ [](/\ (stat.called /\ stat.type \notin {"wifi", "zwave", "govee"}) =>
               (stat.res = "absent" /\ ~stat.sent /\ ~stat.waited)
          /\ (cpc # "idle" /\ cold.type \notin {"wifi", "zwave", "govee", ""}) =>
               (cpc = "returned" /\ cresp = "unsupported" /\ cret = "none"
                  /\ ~csent /\ ~cwaited))
    /\ [][(stat' # stat \/ cold'.type \notin {"wifi", "zwave", "govee", ""}) =>
             (live' = live /\ backup' = backup)]_vars

\* C21 witness: both calls were made for a type without an adapter
C21_Witness ==
    /\ stat.called /\ stat.type = "thread"
    /\ cresp = "unsupported" /\ cold.type = "thread"

\* C22: no adapter raises; a Wi-Fi payload without "on" returns False before any
\* request; a command that met a transport failure returns False, a status call
\* that met one returns absent.
C22_FailuresReturnFalse ==
    /\ cret # "raised"
    /\ stat.res # "raised"
    /\ (cold.type = "wifi" /\ creq.want = MISSING /\ cresp # "400" /\ cpc # "idle") =>
          (cret = "False" /\ ~csent)
    /\ (cold.type = "wifi" /\ cret = "True") => cacked
    /\ (cold.type = "govee" /\ cret # "none" /\ (cwaited \/ ~csent)) => cret = "False"
    /\ (stat.called /\ stat.waited) => stat.res = "absent"

\* the events a history holds after event n was logged onto history h at its cap
Evicted(h, n) == Append(Tail(h), n)

\* C23: neither history ever exceeds its retention cap, and a log call onto a
\* history at its cap drops exactly the oldest event, keeps the others in their
\* order and puts the new event last.
C23_BoundedHistory ==
    /\ Len(tprim.disc) <= 50
    /\ Len(tprim.onb) <= 100
    /\ (tlast.op = "discovery" /\ Len(tlast.prim.disc) = 50) =>
          (tlast.ret = "True" /\ tprim.disc = Evicted(tlast.prim.disc, tnum["discovery"]))
    /\ (tlast.op = "onboarding" /\ Len(tlast.prim.onb) = 100) =>
          (tlast.ret = "True" /\ tprim.onb = Evicted(tlast.prim.onb, tnum["onboarding"]))

\* C23 witness: an onboarding event was logged onto a full onboarding history
\* after the discovery history had evicted events too
C23_Witness ==
    /\ tlast.op = "onboarding"
    /\ Len(tlast.prim.onb) = 100
    /\ tnum["onboarding"] > 100
    /\ tnum["discovery"] > 50
    /\ Len(tprim.disc) = 50

\* C24: a log call of one kind leaves the stored history of the other kind as it
\* was.
C24_KindsIndependent ==
    /\ tlast.op = "discovery" => tprim.onb = tlast.prim.onb
    /\ tlast.op = "onboarding" => tprim.disc = tlast.prim.disc

\* C24 witness: a discovery event was logged onto a full discovery history and
\* evicted one, while the onboarding history held more events than the discovery cap
C24_Witness ==
    /\ tlast.op = "discovery"
    /\ tlast.ret = "True"
    /\ Len(tlast.prim.disc) = 50
    /\ Len(tprim.onb) > 50

\* C25: a telemetry call that finds the primary file missing or invalid and a
\* valid backup leaves, when no write error occurs, a valid primary with the
\* backup's events (and, for a log call, the new event).
C25_RestoredFromBackup ==
    (tlast.op \in Kinds \cup {"read"} /\ tlast.prim.kind # "doc" /\ tlast.bak.kind = "doc"
       /\ tfaults = MaxTelFaults) =>
       tprim = IF tlast.op = "read" THEN tlast.bak
               ELSE WithEvent(tlast.bak, tlast.op, tnum[tlast.op])

\* C26: after a telemetry write that succeeded, the backup file holds the
\* document that write committed.
C26_BackupMirrorsCommitted ==
    (tlast.ret = "True" \/ tlast.restored) => tbak = tcommitted

\* C27: no telemetry call raises, whatever the files hold and whichever write
\* fails (the endpoints do not look at what a log call returned, devices.py:130,
\* 458-467), and the process that serves the registry stays up.
C27_TelemetryIsolated ==
    /\ tlast.ret # "raised"
    /\ tapp = "up"

\* C28: an add request is accepted only when its id is not in the registry at
\* that moment, so that of two add requests with one id at most one is accepted,
\* also when two handlers run at once; and an add request that is rejected as a
\* duplicate leaves the registry as it was
C28_StrictAdd ==
    [][\A h \in Handlers :
          /\ (aresp[h] # "200" /\ aresp'[h] = "200") => Find(areg, adev[h].id) = 0
          /\ (aresp[h] # "409" /\ aresp'[h] = "409") => areg' = areg]_vars

\* C29: every persisted record of type wifi or govee has an ip and every
\* persisted record of type zwave has a node_id
C29_TransportPresent ==
    \A i \in 1..Len(areg) :
       /\ areg[i].type \in {"wifi", "govee"} => areg[i].ip # NoIp
       /\ areg[i].type = "zwave" => areg[i].node_id # NoNode

\* C30: a record that is in the registry before and after a step has the same
\* added_at, and as long as no record is removed every record keeps its id
C30_AddedAtKept ==
    [][/\ \A i \in 1..Len(areg), j \in 1..Len(areg') :
            areg'[j].id = areg[i].id => areg'[j].added_at = areg[i].added_at
       /\ Len(areg') >= Len(areg)
            => \A i \in 1..Len(areg) : areg'[i].id = areg[i].id]_vars

\* what a generation's requests look like
Gen2Shapes == {RPC_SET, RPC_STATUS}

Gen1Shapes == {RELAY_TURN, RELAY_STATUS}

\* the detection of one call: Gen2 endpoint first, Gen1 endpoint only after no
\* match, Gen1 when nothing matched, the request in the detected generation's shape
FreshDetection(c, dev, ok2) ==
    /\ Head(c.probes) = RPC_STATUS
    /\ Len(c.probes) = (IF MatchesGen2(dev, ok2) THEN 1 ELSE 2)
    /\ Len(c.probes) = 2 => c.probes[2] = RELAY_STATUS
    /\ c.gen = (IF MatchesGen2(dev, ok2) THEN "gen2" ELSE "gen1")
    /\ c.url \in (IF c.gen = "gen2" THEN Gen2Shapes ELSE Gen1Shapes)

\* C31: every send and status call that reaches the detection probes the Gen2
\* endpoint first, the Gen1 endpoint only if that did not match, falls back to
\* Gen1, and whatever the call before found, a Gen2 relay that answers is
\* addressed with Gen2 requests and a Gen1 relay with Gen1 requests
C31_DetectedAfresh ==
    scall.probes # <<>> =>
       /\ FreshDetection(scall, scall.dev, scall.ok2)
       /\ scall.dev = "gen2" /\ scall.ok2 => scall.url \in Gen2Shapes
       /\ scall.dev = "gen1" => scall.url \in Gen1Shapes
       /\ scall.verify.probes # <<>> => scall.verify.url \in {RPC_STATUS, RELAY_STATUS}

C31_Witness ==
    /\ sprior.dev = "gen1" /\ sprior.gen = "gen1" /\ sprior.url \in Gen1Shapes
    /\ scall.dev = "gen2" /\ scall.gen = "gen2" /\ scall.url \in Gen2Shapes

\* the place of an address's first occurrence in the generated list
FirstAt(l, x) == CHOOSE i \in 1..Len(l) : l[i] = x /\ \A j \in 1..(i - 1) : l[j] # x

\* C32: the list of addresses under test has no address twice, lists the
\* addresses in the order in which they were generated, and has at most 100
\* entries, for each detected network and for the fallback networks
C32_TestIpsBounded ==
    ipc = "listed" =>
       /\ \A i, j \in 1..Len(itest) : i # j => itest[i] # itest[j]
       /\ \A i \in 1..Len(itest) : \E k \in 1..Len(igen) : igen[k] = itest[i]
       /\ \A i, j \in 1..Len(itest) :
             i < j => FirstAt(igen, itest[i]) < FirstAt(igen, itest[j])
       /\ Len(itest) <= TEST_IPS_CAP
       /\ Len(itest) < 254

\* the fallback networks generate more addresses than the cap
C32_Witness ==
    /\ ipc = "listed"
    /\ Len(igen) > TEST_IPS_CAP
    /\ Len(itest) = TEST_IPS_CAP

\* the datagrams with a Shelly indicator
Announcing(d) == d.payload \in {"shelly_json", "shelly_badjson", "shelly_text"}

\* C33: while the listener listens and when it returns, its list holds for each
\* source IP with an announcing datagram exactly one candidate, made from the
\* first such datagram, and none for any other sender; a datagram that is no
\* announcement leaves the list as it is and the listener listening
C33_OnePerAnnouncingIp ==
    /\ [](\A ip \in IPs :
            LET from == {n \in 1..Len(lrecv) : lrecv[n].ip = ip /\ Announcing(lrecv[n])}
                cands == {i \in 1..Len(lfound) : lfound[i].ip = ip}
            IN /\ Cardinality(cands) = (IF from = {} THEN 0 ELSE 1)
               /\ \A i \in cands : lfound[i].n \in from /\ \A n \in from : lfound[i].n <= n)
    /\ [][Len(lrecv') > Len(lrecv) /\ ~Announcing(lrecv'[Len(lrecv')])
             => lfound' = lfound /\ lpc' = "listening"]_vars

C33_Witness ==
    /\ lpc = "returned"
    /\ Len(lrecv) = 3
    /\ lrecv[1].payload = "other"
    /\ lrecv[2].ip = lrecv[1].ip /\ lrecv[2].payload = "shelly_text"
    /\ lrecv[3].ip = lrecv[1].ip /\ lrecv[3].payload = "shelly_json"
    /\ Len(lfound) = 1 /\ lfound[1].n = 2

\* C34: a history call returns at most limit events, the most recently logged
\* ones, newest first, for every limit from 0 on and every history length
C34_RecentNewestFirst ==
    rcall.kind # "none" =>
       /\ Len(rcall.out) <= rcall.limit
       /\ Len(rcall.out) = (IF rcall.limit <= Len(rcall.history) THEN rcall.limit
                            ELSE Len(rcall.history))
       /\ \A i \in 1..Len(rcall.out) :
             rcall.out[i] = rcall.history[Len(rcall.history) - i + 1]

LoadedFrom(f) ==
    IF ~f.ex THEN Seed(now)
    ELSE IF ParseKind(f.data) = "list" THEN ParseList(f.data)
    ELSE <<>>

\* the text of f is no JSON
Corrupt(f) == f.ex /\ ParseKind(f.data) = "bad"

\* the records of l whose id is not id, in l's order
Others(l, id) ==
    LET keep == {i \in 1..Len(l) : l[i].id # id}
    IN [k \in 1..Cardinality(keep) |->
          l[CHOOSE i \in keep : Cardinality({j \in keep : j < i}) = k - 1]]

C36_OneValidRemains ==
    (tlast.op \in Kinds \cup {"read"}
        /\ (tlast.prim.kind = "doc" \/ tlast.bak.kind = "doc"))
    => (tprim.kind = "doc" \/ tbak.kind = "doc")

\* C37: once the log calls of two tasks of one event loop have returned, each
\* history holds one event per call of its kind, in the order in which the
\* calls ran
C37_NoEventLost ==
    (\A t \in Tasks : kcall[t].kind = "none") =>
       /\ tprim.kind = "doc"
       /\ tprim.disc = [i \in 1..tnum["discovery"] |-> i]
       /\ tprim.onb = [i \in 1..tnum["onboarding"] |-> i]
       /\ Len(kran) = tnum["discovery"] + tnum["onboarding"]

C37_Witness ==
    /\ \A t \in Tasks : kcall[t].kind = "none"
    /\ Len(kran) = 3
    /\ kran[1].kind = "discovery" /\ kran[2].kind = "discovery"
    /\ kran[3].kind = "discovery"
    /\ kran[1].task # kran[2].task
    /\ Len(tprim.disc) = 3

\* C38: an add request that the api router's handler has answered stored one
\* onboarding event, added when the record was stored and failed otherwise
C38_OneOnboardingEvent ==
    \A h \in Handlers :
       (apc[h] = "done" /\ areq[h].layer = "api" /\ aresp[h] # "422")
       => alogged[h] = << IF aresp[h] = "200" THEN "added" ELSE "failed" >>

====
